---- MODULE Spec2Model ----
(***************************************************************************)
(* Model of the orchestration core of insert_package_name:                 *)
(*   core/orchestrator.py  (_load_domain_runner, _iter_selected_domains,   *)
(*                          run_domains, _execute_domain,                  *)
(*                          _execute_domain_chunk, _chunk_domains,         *)
(*                          run_domains_safe)                              *)
(*   core/scheduler.py     (_get_cron_trigger, schedule_domains)           *)
(*   scheduler_main.py     (main)                                          *)
(*   main.py               (main, the batch entry point)                   *)
(*   core/validation.py    (load_and_validate_config)                      *)
(*   schema/types.py       (DomainConfig, GlobalConfig, ExecutionConfig,   *)
(*                          ScheduleConfig)                                *)
(*   schema/config_models.py (ScheduleConfigModel.validate_schedule)       *)
(*                                                                         *)
(* Python's None is the empty sequence <<>>, a present value x is <<x>>.   *)
(* A dict is the sequence of its items in insertion order.                 *)
(***************************************************************************)
EXTENDS Integers, Sequences, FiniteSets, TLC

VARIABLES
  cfg,            \* the GlobalConfig handed to the call
  call,           \* the entry point in progress
  allowed,        \* the allowed_domains argument of the call
  cpu_count,      \* what os.cpu_count() returned to the call (None until read)
  pc,             \* "idle", "running", "returned" or "raised"
  selected,       \* the list the selector returned
  strategy,       \* "strict", "serial", "threads" or "processes"
  max_chunks,     \* the max_chunks argument of _chunk_domains
  chunks,         \* the chunks _chunk_domains returned (submitted to the process pool)
  chunk_started,  \* per chunk: a process worker has picked it up
  thread_workers, \* the thread_workers argument of _execute_domain_chunk
  st,             \* per domain id: its position in the per-domain step
  outcome,        \* per domain id: how its pipeline module behaved
  resolved,       \* per domain id: calls of _load_domain_runner
  invoked,        \* per domain id: calls of the runner
  logs,           \* per domain id: the records its logger received
  exc,            \* the exception that left the call
  key_error,      \* the args of the KeyError a runner raised (None: not recorded)
  domain_name,    \* the domain_name argument of _get_cron_trigger called on its own
  trigger,        \* what that call of _get_cron_trigger returned or raised
  jobs,           \* the jobs added to the BackgroundScheduler, in add_job order
  scheduler,      \* the BackgroundScheduler: "none", "created", "running", "shutdown"
  main_pc,        \* position of scheduler_main.main
  batch_log,      \* the records run_domains_safe itself logged (no domain logger)
  valid_configs,  \* main.py: the domains whose configuration loaded
  failed_domains, \* main.py: the domains whose configuration did not load
  batch_next,     \* main.py: the entry of valid_configs the execute loop takes next
  main_log,       \* main.py: the records main itself emits (logger, or stderr)
  batch_pc        \* position of main.main, the batch entry point

\* the state of the scheduler module and of its entry point
sched_vars == <<domain_name, trigger, jobs, scheduler, main_pc>>

\* the state of the batch entry point
batch_vars == <<valid_configs, failed_domains, batch_next, main_log, batch_pc>>

vars == <<cfg, call, allowed, cpu_count, pc, selected, strategy, max_chunks, chunks,
          chunk_started, thread_workers, st, outcome, resolved, invoked, logs, exc,
          key_error, batch_log, sched_vars, batch_vars>>

\* ------------------------------------------------------------------ bounds
\* number of domain ids a configuration of the execution model may hold
MaxDomains == 3
\* largest explicit max_workers value of the thread / process sub-configs
MaxWorkers == 2
\* largest os.cpu_count() the environment reports
MaxCpus == 2
\* longest item list handed to _chunk_domains on its own
MaxItems == 6
\* largest max_chunks handed to _chunk_domains on its own
MaxChunks == 4
\* number of domain ids a configuration of the selector model may hold
MaxSelDomains == 2
\* number of distinct input/output keys of a domain
MaxKeys == 3
\* number of domains a configuration of the scheduler model may hold
MaxSchedDomains == 2
\* number of firings of one job that are followed
MaxFirings == 1

\* ----------------------------------------------------------------- helpers
None == <<>>
Some(x) == <<x>>
IsNone(o) == o = <<>>
Val(o) == o[1]

Min(a, b) == IF a <= b THEN a ELSE b
Max(a, b) == IF a >= b THEN a ELSE b

\* math.ceil(a / b) for a >= 0, b >= 1
CeilDiv(a, b) == (a + b - 1) \div b

RECURSIVE Concat(_)
Concat(ss) == IF ss = <<>> THEN <<>> ELSE Head(ss) \o Concat(Tail(ss))

\* a list comprehension [x for x in s if Keep(x)]
Comprehension(s, Keep(_)) == SelectSeq(s, Keep)

\* ------------------------------------------------------------ configuration
Tags == {"t1", "t2"}

\* tag lists a DomainConfig carries (as the set of their elements)
TagChoices == {{}, {"t1"}, {"t1", "t2"}}

\* DomainConfig: the fields the orchestrator reads, keyed by the domain id
DomainConfig(ids) == [id : ids, enabled : BOOLEAN, tags : TagChoices]

\* cfg.domains of the selector model: at most MaxSelDomains distinct ids in
\* any insertion order
InjSeqsOfConfigs ==
  {ds \in UNION {[1..k -> DomainConfig(1..MaxSelDomains)] : k \in 0..MaxSelDomains} :
     \A i, j \in 1..Len(ds) : i # j => ds[i].id # ds[j].id}

\* cfg.domains.items(): the (id, DomainConfig) pairs in insertion order
Items(c) == c.domains

IdsOf(items) == [i \in 1..Len(items) |-> items[i].id]

\* ---------------------------------------------------------------- selector
\* line 74: keep the items whose id is in allowed_domains
FilterAllowed(items, ids) ==
  LET Keep(d) == d.id \in ids IN Comprehension(items, Keep)

\* line 77: keep the items whose id is in cfg.active_domains
FilterActiveDomains(items, active_domains) ==
  LET Keep(d) == d.id \in active_domains IN Comprehension(items, Keep)

\* subset matching in place of intersection
FilterActiveTags_Subset(items, active_tags) ==
  LET Keep(d) == active_tags \subseteq d.tags IN Comprehension(items, Keep)

\* line 80: keep the items whose tags intersect cfg.active_tags
FilterActiveTags(items, active_tags) ==
  LET Keep(d) == (active_tags \cap d.tags) # {} IN Comprehension(items, Keep)

\* the three guarded filter steps of lines 73-80, each a no-op when its
\* filter is falsy (None or empty)
StepAllowed(items, allow) ==
  IF ~IsNone(allow) /\ Val(allow) # {} THEN FilterAllowed(items, Val(allow))
  ELSE items

StepActiveDomains(items, c) ==
  IF c.active_domains # {} THEN FilterActiveDomains(items, c.active_domains)
  ELSE items

StepActiveTags(items, c) ==
  IF c.active_tags # {} THEN FilterActiveTags(items, c.active_tags)
  ELSE items

\* the tag step filtering cfg.domains.items() again, not the narrowed list
_iter_selected_domains_TagsRestart(c, allow) ==
  IF c.active_tags # {} THEN FilterActiveTags(Items(c), c.active_tags)
  ELSE StepActiveDomains(StepAllowed(Items(c), allow), c)

\* the selector dropping disabled domains
_iter_selected_domains_EnabledOnly(c, allow) ==
  LET Keep(d) == d.enabled
  IN Comprehension(StepActiveTags(StepActiveDomains(StepAllowed(Items(c), allow), c), c), Keep)

_iter_selected_domains(c, allow) ==
  StepActiveTags(StepActiveDomains(StepAllowed(Items(c), allow), c), c)

\* ----------------------------------------------------------------- chunker
\* os.cpu_count() or 1
CpuCountOr1(cpu) == IF IsNone(cpu) THEN 1 ELSE Val(cpu)

\* lines 173-175
ChunkCount(k, cpu) ==
  Max(1, IF IsNone(k) THEN CpuCountOr1(cpu) ELSE Val(k))

\* floor division in place of math.ceil
ChunkSize_Floor(n, k, cpu) ==
  Max(1, n \div ChunkCount(k, cpu))

\* line 176
ChunkSize(n, k, cpu) ==
  Max(1, CeilDiv(n, ChunkCount(k, cpu)))

\* a slice one item short
Slice_DropsLast(s, i, size) == SubSeq(s, i + 1, Min(Len(s), i + size) - 1)

\* domain_items[i : i + chunk_size] with a 0-based start i
Slice(s, i, size) == SubSeq(s, i + 1, Min(Len(s), i + size))

\* range(0, n, step) as the sequence of its values
RECURSIVE RangeFrom(_, _, _)
RangeFrom(i, n, step) == IF i >= n THEN <<>> ELSE <<i>> \o RangeFrom(i + step, n, step)

_chunk_domains(domain_items, k, cpu) ==
  IF domain_items = <<>> THEN <<>>
  ELSE LET size == ChunkSize(Len(domain_items), k, cpu)
           starts == RangeFrom(0, Len(domain_items), size)
       IN [c \in 1..Len(starts) |-> Slice(domain_items, starts[c], size)]

\* --------------------------------------------------- the execution model
\* ids of the domains of the execution model
DomainIds == 1..MaxDomains

\* the tag list of the domain with id d
TagsOf(d) == IF d % 3 = 1 THEN {"t1"} ELSE IF d % 3 = 2 THEN {"t1", "t2"} ELSE {}

\* sub-configs: max_workers is read only where enabled is true
ExecChoices ==
  {[enabled |-> FALSE, max_workers |-> None]} \cup
  {[enabled |-> TRUE, max_workers |-> w] : w \in {None} \cup {Some(n) : n \in 1..MaxWorkers}}

\* values of os.cpu_count()
CpuChoices == {None} \cup {Some(n) : n \in 1..MaxCpus}

\* GlobalConfig: domains in insertion order, the two filters, execution.parallel
GlobalConfig ==
  [domains : {ds \in [DomainIds -> DomainConfig(DomainIds)] :
                \A d \in DomainIds : ds[d].id = d /\ ds[d].tags = TagsOf(d)},
   active_domains : {{}, {MaxDomains}},
   active_tags : {{}, {"t1"}},
   threads : ExecChoices,
   processes : ExecChoices]

IdSet(items) == {items[i].id : i \in 1..Len(items)}

PosOf(items, d) == CHOOSE i \in 1..Len(items) : items[i].id = d

ItemOf(d) == cfg.domains[PosOf(cfg.domains, d)]

\* how a domain's pipeline module behaves when it is imported and run
ImportFailures == {"ModuleNotFoundError", "MissingRun", "ImportException"}
RunnerOutcomes == {"returns", "KeyError", "DataHandlingError", "Exception"}
Behaviours == ImportFailures \cup RunnerOutcomes

\* _load_domain_runner: "run" for the module's run callable, else what it raises
\* (an exception of the import other than ModuleNotFoundError leaves it as is)
_load_domain_runner(behaviour) ==
  IF behaviour = "ModuleNotFoundError" THEN "DomainNotFoundError"
  ELSE IF behaviour = "MissingRun" THEN "DomainInterfaceError"
  ELSE IF behaviour = "ImportException" THEN "Exception"
  ELSE "run"

\* what the resolve-and-run block raises ("none": both returned)
Raised(behaviour) ==
  IF _load_domain_runner(behaviour) # "run" THEN _load_domain_runner(behaviour)
  ELSE IF behaviour = "returns" THEN "none" ELSE behaviour

Info(msg) == [level |-> "info", msg |-> msg, exc_info |-> FALSE]
Error(msg, trace) == [level |-> "error", msg |-> msg, exc_info |-> trace]

\* _execute_domain without its last except clause
ExecuteDomainHandler_NoCatchAll(raised) ==
  IF raised = "none" THEN [log |-> Info("Completed domain"), propagates |-> FALSE]
  ELSE IF raised \in {"DomainNotFoundError", "DomainInterfaceError"}
    THEN [log |-> Error("Domain setup error", FALSE), propagates |-> FALSE]
  ELSE IF raised = "KeyError"
    THEN [log |-> Error("Data handling error: MissingIOKeyError", FALSE), propagates |-> FALSE]
  ELSE IF raised = "DataHandlingError"
    THEN [log |-> Error("Data handling error", TRUE), propagates |-> FALSE]
  ELSE [log |-> Error("Unexpected error during domain execution", TRUE), propagates |-> TRUE]

\* _execute_domain without its except KeyError clause
ExecuteDomainHandler_NoKeyErrorClause(raised) ==
  IF raised = "none" THEN [log |-> Info("Completed domain"), propagates |-> FALSE]
  ELSE IF raised \in {"DomainNotFoundError", "DomainInterfaceError"}
    THEN [log |-> Error("Domain setup error", FALSE), propagates |-> FALSE]
  ELSE IF raised = "DataHandlingError"
    THEN [log |-> Error("Data handling error", TRUE), propagates |-> FALSE]
  ELSE [log |-> Error("Unexpected error during domain execution", TRUE), propagates |-> FALSE]

\* the except clauses of _execute_domain, lines 146-154: the record logged for
\* a raised exception, and whether the exception leaves _execute_domain
ExecuteDomainHandler(raised) ==
  IF raised = "none" THEN [log |-> Info("Completed domain"), propagates |-> FALSE]
  ELSE IF raised \in {"DomainNotFoundError", "DomainInterfaceError"}
    THEN [log |-> Error("Domain setup error", FALSE), propagates |-> FALSE]
  ELSE IF raised = "KeyError"
    THEN [log |-> Error("Data handling error: MissingIOKeyError", FALSE), propagates |-> FALSE]
  ELSE IF raised = "DataHandlingError"
    THEN [log |-> Error("Data handling error", TRUE), propagates |-> FALSE]
  ELSE [log |-> Error("Unexpected error during domain execution", TRUE), propagates |-> FALSE]

\* run_domains swallowing a KeyError of the runner
RunDomainsHandler_SwallowsKeyError(raised, behaviour, d) ==
  IF raised \in {"none", "KeyError"} THEN None
  ELSE IF _load_domain_runner(behaviour) # "run"
    THEN Some([type |-> raised, domain |-> d,
               cause |-> IF behaviour = "ModuleNotFoundError" THEN behaviour ELSE "none"])
  ELSE IF raised = "DataHandlingError"
    THEN Some([type |-> "DataHandlingError", domain |-> d, cause |-> "none"])
  ELSE Some([type |-> "DomainExecutionError", domain |-> d, cause |-> raised])

\* run_domains wrapping a DataHandlingError of the runner like any exception
RunDomainsHandler_WrapsAll(raised, behaviour, d) ==
  IF raised = "none" THEN None
  ELSE IF _load_domain_runner(behaviour) # "run"
    THEN Some([type |-> raised, domain |-> d,
               cause |-> IF behaviour = "ModuleNotFoundError" THEN behaviour ELSE "none"])
  ELSE IF raised = "KeyError"
    THEN Some([type |-> "MissingIOKeyError", domain |-> d, cause |-> "KeyError"])
  ELSE Some([type |-> "DomainExecutionError", domain |-> d, cause |-> raised])

\* run_domains, lines 120-129: the exception that leaves the call for a raised
\* exception of the resolve-and-run step of domain d (None: none leaves)
RunDomainsHandler(raised, behaviour, d) ==
  IF raised = "none" THEN None
  ELSE IF _load_domain_runner(behaviour) # "run"
    THEN Some([type |-> raised, domain |-> d,
               cause |-> IF behaviour = "ModuleNotFoundError" THEN behaviour ELSE "none"])
  ELSE IF raised = "DataHandlingError"
    THEN Some([type |-> "DataHandlingError", domain |-> d, cause |-> "none"])
  ELSE IF raised = "KeyError"
    THEN Some([type |-> "MissingIOKeyError", domain |-> d, cause |-> "KeyError"])
  ELSE Some([type |-> "DomainExecutionError", domain |-> d, cause |-> raised])

\* the thread branch tested before the process branch
Strategy_ThreadsFirst(c, sel) ==
  IF c.threads.enabled /\ Len(sel) > 1 THEN "threads"
  ELSE IF c.processes.enabled /\ Len(sel) > 1 THEN "processes"
  ELSE "serial"

\* run_domains_safe, lines 199-212: the branch taken
Strategy(c, sel) ==
  IF c.processes.enabled /\ Len(sel) > 1 THEN "processes"
  ELSE IF c.threads.enabled /\ Len(sel) > 1 THEN "threads"
  ELSE "serial"

\* _execute_domain_chunk, line 159: the chunk runs in a thread pool
ChunkUsesThreads(domain_items, workers) ==
  ~IsNone(workers) /\ Val(workers) # 0 /\ Val(workers) > 1 /\ Len(domain_items) > 1

\* a thread pool that always takes the default number of worker threads
ThreadPoolSize_IgnoresMaxWorkers(max_workers, cpu) == Min(32, CpuCountOr1(cpu) + 4)

\* ThreadPoolExecutor(max_workers): the number of worker threads
ThreadPoolSize(max_workers, cpu) ==
  IF IsNone(max_workers) THEN Min(32, CpuCountOr1(cpu) + 4) ELSE Val(max_workers)

\* ProcessPoolExecutor(max_workers): the number of worker processes
ProcessPoolSize(max_workers, cpu) ==
  IF IsNone(max_workers) THEN CpuCountOr1(cpu) ELSE Val(max_workers)

TerminalSt == {"skipped", "completed", "failed"}

IsTerminal(d) == st[d] \in TerminalSt
HasBegun(d) == st[d] # "queued"
Running(ids) == Cardinality({d \in ids : st[d] = "running"})

\* every item before d in the list satisfies P
EarlierAll(items, d, P(_)) == \A i \in 1..Len(items) : i < PosOf(items, d) => P(items[i].id)

ChunkOf(d) == CHOOSE c \in 1..Len(chunks) : d \in IdSet(chunks[c])

\* a worker process holds chunk c
ChunkActive(c) == chunk_started[c] /\ \E d \in IdSet(chunks[c]) : ~IsTerminal(d)

ActiveChunks == Cardinality({c \in 1..Len(chunks) : ChunkActive(c)})

\* a serial fallback that takes the selected domains in any order
CanBegin_SerialAnyOrder(d) ==
  /\ pc = "running"
  /\ st[d] = "queued"
  /\ IF strategy = "strict" THEN EarlierAll(selected, d, IsTerminal)
     ELSE IF strategy = "serial" THEN Running(IdSet(selected)) = 0
     ELSE IF strategy = "threads"
       THEN /\ EarlierAll(selected, d, HasBegun)
            /\ Running(IdSet(selected)) < ThreadPoolSize(cfg.threads.max_workers, cpu_count)
     ELSE LET c == ChunkOf(d) IN
            /\ chunk_started[c]
            /\ IF ChunkUsesThreads(chunks[c], thread_workers)
               THEN /\ EarlierAll(chunks[c], d, HasBegun)
                    /\ Running(IdSet(chunks[c])) < Val(thread_workers)
               ELSE EarlierAll(chunks[c], d, IsTerminal)

\* the per-domain step of d may begin now: the for loops run in list order, a
\* pool starts its tasks in submission order while it has a free worker
CanBegin(d) ==
  /\ pc = "running"
  /\ st[d] = "queued"
  /\ IF strategy \in {"strict", "serial"} THEN EarlierAll(selected, d, IsTerminal)
     ELSE IF strategy = "threads"
       THEN /\ EarlierAll(selected, d, HasBegun)
            /\ Running(IdSet(selected)) < ThreadPoolSize(cfg.threads.max_workers, cpu_count)
     ELSE LET c == ChunkOf(d) IN
            /\ chunk_started[c]
            /\ IF ChunkUsesThreads(chunks[c], thread_workers)
               THEN /\ EarlierAll(chunks[c], d, HasBegun)
                    /\ Running(IdSet(chunks[c])) < Val(thread_workers)
               ELSE EarlierAll(chunks[c], d, IsTerminal)

\* nothing has been called yet
Idle ==
  /\ call = "none"
  /\ allowed = None
  /\ cpu_count = None
  /\ pc = "idle"
  /\ strategy = "none"
  /\ chunks = <<>>
  /\ chunk_started = <<>>
  /\ thread_workers = None
  /\ st = [d \in DomainIds |-> "idle"]
  /\ outcome = [d \in DomainIds |-> "unset"]
  /\ resolved = [d \in DomainIds |-> 0]
  /\ invoked = [d \in DomainIds |-> 0]
  /\ logs = [d \in DomainIds |-> <<>>]
  /\ exc = None
  /\ key_error = None
  /\ domain_name = None
  /\ trigger = None
  /\ jobs = <<>>
  /\ scheduler = "none"
  /\ main_pc = "idle"
  /\ batch_log = <<>>
  /\ valid_configs = <<>>
  /\ failed_domains = <<>>
  /\ batch_next = 1
  /\ main_log = <<>>
  /\ batch_pc = "idle"

Init ==
  /\ cfg \in GlobalConfig
  /\ selected = <<>>
  /\ max_chunks = None
  /\ Idle

\* run_domains(cfg) is entered: line 112 evaluates the selector
CallRunDomains ==
  /\ pc = "idle"
  /\ LET sel == _iter_selected_domains(cfg, None) IN
       /\ selected' = sel
       /\ st' = [d \in DomainIds |-> IF d \in IdSet(sel) THEN "queued" ELSE "idle"]
  /\ call' = "run_domains"
  /\ strategy' = "strict"
  /\ pc' = "running"
  /\ UNCHANGED <<cfg, allowed, cpu_count, max_chunks, chunks, chunk_started, thread_workers,
                 outcome, resolved, invoked, logs, exc>>
  /\ UNCHANGED <<key_error, batch_log, sched_vars, batch_vars>>

\* run_domains_safe(cfg, a) is entered: lines 194-209 select, pick the branch,
\* and submit the chunks or the domains to the pool
CallRunDomainsSafe(a, cpu) ==
  /\ pc = "idle"
  /\ LET sel == _iter_selected_domains(cfg, a)
         strat == Strategy(cfg, sel)
         reads == \/ strat = "processes" /\ IsNone(cfg.processes.max_workers)
                  \/ strat = "threads" /\ IsNone(cfg.threads.max_workers)
         cs == IF strat = "processes" THEN _chunk_domains(sel, cfg.processes.max_workers, cpu)
               ELSE <<>>
     IN
       /\ (~reads) => cpu = None
       /\ selected' = sel
       /\ strategy' = strat
       /\ max_chunks' = IF strat = "processes" THEN cfg.processes.max_workers ELSE None
       /\ chunks' = cs
       /\ chunk_started' = [c \in 1..Len(cs) |-> FALSE]
       /\ thread_workers' = IF strat = "processes" /\ cfg.threads.enabled
                            THEN cfg.threads.max_workers ELSE None
       /\ st' = [d \in DomainIds |-> IF d \in IdSet(sel) THEN "queued" ELSE "idle"]
  /\ call' = "run_domains_safe"
  /\ allowed' = a
  /\ cpu_count' = cpu
  /\ pc' = "running"
  /\ UNCHANGED <<cfg, outcome, resolved, invoked, logs, exc>>
  /\ UNCHANGED <<key_error, batch_log, sched_vars, batch_vars>>

\* a worker process of the pool takes the next chunk
ChunkStart(c) ==
  /\ pc = "running"
  /\ strategy = "processes"
  /\ ~chunk_started[c]
  /\ \A b \in 1..(c - 1) : chunk_started[b]
  /\ ActiveChunks < ProcessPoolSize(cfg.processes.max_workers, cpu_count)
  /\ chunk_started' = [chunk_started EXCEPT ![c] = TRUE]
  /\ UNCHANGED <<cfg, call, allowed, cpu_count, pc, selected, strategy, max_chunks, chunks,
                 thread_workers, st, outcome, resolved, invoked, logs, exc>>
  /\ UNCHANGED <<key_error, batch_log, sched_vars, batch_vars>>

\* lines 115-117 and 137-139: a disabled domain is logged as skipped
SkipDomain(d) ==
  /\ CanBegin(d)
  /\ ~ItemOf(d).enabled
  /\ logs' = [logs EXCEPT ![d] = Append(@, Info("Skipping domain (disabled)"))]
  /\ st' = [st EXCEPT ![d] = "skipped"]
  /\ UNCHANGED <<cfg, call, allowed, cpu_count, pc, selected, strategy, max_chunks, chunks,
                 chunk_started, thread_workers, outcome, resolved, invoked, exc>>
  /\ UNCHANGED <<key_error, batch_log, sched_vars, batch_vars>>

\* the per-domain step without its enabled check
StartDomain_IgnoresEnabled(d) ==
  /\ CanBegin(d)
  /\ logs' = [logs EXCEPT ![d] = Append(@, Info("Starting domain"))]
  /\ st' = [st EXCEPT ![d] = "running"]
  /\ UNCHANGED <<cfg, call, allowed, cpu_count, pc, selected, strategy, max_chunks, chunks,
                 chunk_started, thread_workers, outcome, resolved, invoked, exc>>
  /\ UNCHANGED <<key_error, batch_log, sched_vars, batch_vars>>

\* a per-domain step that a second worker may begin for a completed domain
StartDomain_Restarts(d) ==
  /\ pc = "running"
  /\ CanBegin(d) \/ st[d] = "completed"
  /\ ItemOf(d).enabled
  /\ logs' = [logs EXCEPT ![d] = Append(@, Info("Starting domain"))]
  /\ st' = [st EXCEPT ![d] = "running"]
  /\ UNCHANGED <<cfg, call, allowed, cpu_count, pc, selected, strategy, max_chunks, chunks,
                 chunk_started, thread_workers, outcome, resolved, invoked, exc>>
  /\ UNCHANGED <<key_error, batch_log, sched_vars, batch_vars>>

\* lines 119 and 141: an enabled domain is announced
StartDomain(d) ==
  /\ CanBegin(d)
  /\ ItemOf(d).enabled
  /\ logs' = [logs EXCEPT ![d] = Append(@, Info("Starting domain"))]
  /\ st' = [st EXCEPT ![d] = "running"]
  /\ UNCHANGED <<cfg, call, allowed, cpu_count, pc, selected, strategy, max_chunks, chunks,
                 chunk_started, thread_workers, outcome, resolved, invoked, exc>>
  /\ UNCHANGED <<key_error, batch_log, sched_vars, batch_vars>>

\* the resolver is called and, if it returns the runner, the runner is called
ResolveAndRun(d, behaviour) ==
  /\ outcome' = [outcome EXCEPT ![d] = behaviour]
  /\ resolved' = [resolved EXCEPT ![d] = @ + 1]
  /\ invoked' = [invoked EXCEPT ![d] = IF _load_domain_runner(behaviour) = "run" THEN @ + 1 ELSE @]

\* run_domains, lines 120-130, for domain d
FinishStrict(d, behaviour) ==
  /\ pc = "running"
  /\ strategy = "strict"
  /\ st[d] = "running"
  /\ ResolveAndRun(d, behaviour)
  /\ LET leaves == RunDomainsHandler(Raised(behaviour), behaviour, d) IN
       IF IsNone(leaves)
       THEN /\ logs' = [logs EXCEPT ![d] = Append(@, Info("Completed domain"))]
            /\ st' = [st EXCEPT ![d] = "completed"]
            /\ UNCHANGED <<pc, exc>>
       ELSE /\ st' = [st EXCEPT ![d] = "failed"]
            /\ pc' = "raised"
            /\ exc' = leaves
            /\ UNCHANGED logs
  /\ UNCHANGED <<cfg, call, allowed, cpu_count, selected, strategy, max_chunks, chunks,
                 chunk_started, thread_workers>>
  /\ UNCHANGED <<key_error, batch_log, sched_vars, batch_vars>>

\* a per-domain step that switches a failed domain off in the configuration
FinishSafe_DisablesFailed(d, behaviour) ==
  /\ pc = "running"
  /\ strategy \in {"serial", "threads", "processes"}
  /\ st[d] = "running"
  /\ ResolveAndRun(d, behaviour)
  /\ LET h == ExecuteDomainHandler(Raised(behaviour)) IN
       IF ~h.propagates
       THEN /\ logs' = [logs EXCEPT ![d] = Append(@, h.log)]
            /\ st' = [st EXCEPT ![d] = IF Raised(behaviour) = "none" THEN "completed" ELSE "failed"]
            /\ UNCHANGED <<pc, exc>>
       ELSE /\ st' = [st EXCEPT ![d] = "failed"]
            /\ UNCHANGED logs
            /\ IF strategy = "serial"
               THEN pc' = "raised" /\ exc' = Some([type |-> Raised(behaviour), domain |-> d, cause |-> "none"])
               ELSE UNCHANGED <<pc, exc>>
  /\ cfg' = IF Raised(behaviour) = "none" THEN cfg
            ELSE [cfg EXCEPT !.domains[PosOf(cfg.domains, d)].enabled = FALSE]
  /\ UNCHANGED <<call, allowed, cpu_count, selected, strategy, max_chunks, chunks,
                 chunk_started, thread_workers>>
  /\ UNCHANGED <<key_error, batch_log, sched_vars, batch_vars>>

\* _execute_domain, lines 142-154, for domain d; an exception that left it would
\* leave the call in the serial branch and be kept by the future in a pool
FinishSafe(d, behaviour) ==
  /\ pc = "running"
  /\ strategy \in {"serial", "threads", "processes"}
  /\ st[d] = "running"
  /\ ResolveAndRun(d, behaviour)
  /\ LET h == ExecuteDomainHandler(Raised(behaviour)) IN
       IF ~h.propagates
       THEN /\ logs' = [logs EXCEPT ![d] = Append(@, h.log)]
            /\ st' = [st EXCEPT ![d] = IF Raised(behaviour) = "none" THEN "completed" ELSE "failed"]
            /\ UNCHANGED <<pc, exc>>
       ELSE /\ st' = [st EXCEPT ![d] = "failed"]
            /\ UNCHANGED logs
            /\ IF strategy = "serial"
               THEN pc' = "raised" /\ exc' = Some([type |-> Raised(behaviour), domain |-> d, cause |-> "none"])
               ELSE UNCHANGED <<pc, exc>>
  /\ UNCHANGED <<cfg, call, allowed, cpu_count, selected, strategy, max_chunks, chunks,
                 chunk_started, thread_workers>>
  /\ UNCHANGED <<key_error, batch_log, sched_vars, batch_vars>>

\* a call that returns as soon as its tasks are submitted, without joining
Return_NoJoin ==
  /\ pc = "running"
  /\ strategy \in {"strict", "serial"} => \A d \in IdSet(selected) : IsTerminal(d)
  /\ pc' = "returned"
  /\ UNCHANGED <<cfg, call, allowed, cpu_count, selected, strategy, max_chunks, chunks,
                 chunk_started, thread_workers, st, outcome, resolved, invoked, logs, exc>>
  /\ UNCHANGED <<key_error, batch_log, sched_vars, batch_vars>>

\* a call that ends by logging its counts of completed, failed and skipped
Return_ReportsSummary ==
  /\ pc = "running"
  /\ \A d \in IdSet(selected) : IsTerminal(d)
  /\ pc' = "returned"
  /\ batch_log' = Append(batch_log,
       [succeeded |-> Cardinality({d \in IdSet(selected) : st[d] = "completed"}),
        failed |-> Cardinality({d \in IdSet(selected) : st[d] = "failed"}),
        skipped |-> Cardinality({d \in IdSet(selected) : st[d] = "skipped"})])
  /\ UNCHANGED <<cfg, call, allowed, cpu_count, selected, strategy, max_chunks, chunks,
                 chunk_started, thread_workers, st, outcome, resolved, invoked, logs, exc>>
  /\ UNCHANGED <<key_error, sched_vars, batch_vars>>

\* the for loop ended (lines 118, 213), or the with block joined its pool
\* (lines 201-204, 207-209; within a worker, lines 160-162): the call returns
Return ==
  /\ pc = "running"
  /\ \A d \in IdSet(selected) : IsTerminal(d)
  /\ pc' = "returned"
  /\ UNCHANGED <<cfg, call, allowed, cpu_count, selected, strategy, max_chunks, chunks,
                 chunk_started, thread_workers, st, outcome, resolved, invoked, logs, exc>>
  /\ UNCHANGED <<key_error, batch_log, sched_vars, batch_vars>>

\* allowed_domains arguments: None, one id (the scheduler and the batch entry
\* point), two ids
AllowedChoices ==
  {None} \cup {Some({d}) : d \in DomainIds} \cup {Some({1, 2})}

Next ==
  \/ CallRunDomains
  \/ \E a \in AllowedChoices, cpu \in CpuChoices : CallRunDomainsSafe(a, cpu)
  \/ \E c \in 1..Len(chunks) : ChunkStart(c)
  \/ \E d \in DomainIds : SkipDomain(d)
  \/ \E d \in DomainIds : StartDomain(d)
  \/ \E d \in DomainIds, b \in Behaviours : FinishStrict(d, b)
  \/ \E d \in DomainIds, b \in Behaviours : FinishSafe(d, b)
  \/ Return

Spec == Init /\ [][Next]_vars

\* ------------------------------------------- the selector called on its own
SelIds == 1..MaxSelDomains

\* configurations of the selector model: any insertion order, any tags
SelConfig ==
  [domains : InjSeqsOfConfigs,
   active_domains : SUBSET SelIds,
   active_tags : SUBSET Tags,
   threads : {[enabled |-> FALSE, max_workers |-> None]},
   processes : {[enabled |-> FALSE, max_workers |-> None]}]

SelAllowedChoices == {None} \cup {Some(S) : S \in SUBSET SelIds}

InitSel ==
  /\ cfg \in SelConfig
  /\ selected = <<>>
  /\ max_chunks = None
  /\ Idle

\* _iter_selected_domains(cfg, a) is called and returns
SelectCall(a) ==
  /\ pc = "idle"
  /\ call' = "_iter_selected_domains"
  /\ allowed' = a
  /\ selected' = _iter_selected_domains(cfg, a)
  /\ pc' = "returned"
  /\ UNCHANGED <<cfg, cpu_count, strategy, max_chunks, chunks, chunk_started,
                 thread_workers, st, outcome, resolved, invoked, logs, exc>>
  /\ UNCHANGED <<key_error, batch_log, sched_vars, batch_vars>>

NextSel == \E a \in SelAllowedChoices : SelectCall(a)

SpecSel == InitSel /\ [][NextSel]_vars

\* -------------------------------------------- the chunker called on its own
\* the item list of n domains
ItemList(n) == [i \in 1..n |-> [id |-> i, enabled |-> TRUE, tags |-> {}]]

InitChunk ==
  /\ cfg = [domains |-> <<>>, active_domains |-> {}, active_tags |-> {},
            threads |-> [enabled |-> FALSE, max_workers |-> None],
            processes |-> [enabled |-> FALSE, max_workers |-> None]]
  /\ selected \in {ItemList(n) : n \in 0..MaxItems}
  /\ max_chunks \in {None} \cup {Some(k) : k \in -1..MaxChunks}
  /\ Idle

\* _chunk_domains(selected, max_chunks) is called and returns; os.cpu_count()
\* is read at line 174 only
ChunkCall(cpu) ==
  /\ pc = "idle"
  /\ (selected = <<>> \/ ~IsNone(max_chunks)) => cpu = None
  /\ call' = "_chunk_domains"
  /\ cpu_count' = cpu
  /\ chunks' = _chunk_domains(selected, max_chunks, cpu)
  /\ pc' = "returned"
  /\ UNCHANGED <<cfg, allowed, selected, strategy, max_chunks, chunk_started,
                 thread_workers, st, outcome, resolved, invoked, logs, exc>>
  /\ UNCHANGED <<key_error, batch_log, sched_vars, batch_vars>>

NextChunk == \E cpu \in CpuChoices : ChunkCall(cpu)

SpecChunk == InitChunk /\ [][NextChunk]_vars

\* ------------------------------- a runner that raises KeyError, in detail
\* input/output keys: their codes, ordered as the strings are
Keys == 1..MaxKeys

\* the key lists of a dict, in any insertion order
KeySeqs ==
  {s \in UNION {[1..n -> Keys] : n \in 0..MaxKeys} :
     \A i, j \in 1..Len(s) : i # j => s[i] # s[j]}

\* s without its element at position m
DropAt(s, m) == [i \in 1..(Len(s) - 1) |-> IF i < m THEN s[i] ELSE s[i + 1]]

\* sorted(keys), lines 91-92: the list in ascending order
RECURSIVE sorted(_)
sorted(s) ==
  IF s = <<>> THEN <<>>
  ELSE LET m == CHOOSE i \in 1..Len(s) : \A j \in 1..Len(s) : s[i] <= s[j]
       IN <<s[m]>> \o sorted(DropAt(s, m))

\* the key "<unknown>" of line 87
UnknownKey == 0

\* the KeyError instances a runner may raise: without args, or with the key
\* of the failed lookup
KeyErrorArgs == {<<>>} \cup {<<k>> : k \in 1..(MaxKeys + 1)}

\* _missing_io_key_error without the sorted() calls
_missing_io_key_error_Unsorted(name, domain_cfg, args) ==
  [type |-> "MissingIOKeyError",
   domain |-> name,
   key |-> IF args # <<>> THEN args[1] ELSE UnknownKey,
   available_inputs |-> domain_cfg.inputs,
   available_outputs |-> domain_cfg.outputs,
   cause |-> "KeyError"]

\* _missing_io_key_error, lines 85-93; str(key) of a key that is a str is the
\* key, and the exception is raised `from exc`
_missing_io_key_error(name, domain_cfg, args) ==
  [type |-> "MissingIOKeyError",
   domain |-> name,
   key |-> IF args # <<>> THEN args[1] ELSE UnknownKey,
   available_inputs |-> sorted(domain_cfg.inputs),
   available_outputs |-> sorted(domain_cfg.outputs),
   cause |-> "KeyError"]

\* one enabled domain with its input and output keys
KeyConfig ==
  [domains : {<<[id |-> 1, enabled |-> TRUE, tags |-> {}, inputs |-> i, outputs |-> o]>> :
                i \in KeySeqs, o \in KeySeqs},
   active_domains : {{}},
   active_tags : {{}},
   threads : {[enabled |-> FALSE, max_workers |-> None]},
   processes : {[enabled |-> FALSE, max_workers |-> None]}]

InitKey ==
  /\ cfg \in KeyConfig
  /\ selected = <<>>
  /\ max_chunks = None
  /\ Idle

\* run_domains, lines 121-126, when the runner of d raises KeyError(*args)
KeyErrorStrict(d, args) ==
  /\ pc = "running"
  /\ strategy = "strict"
  /\ st[d] = "running"
  /\ ResolveAndRun(d, "KeyError")
  /\ key_error' = Some(args)
  /\ st' = [st EXCEPT ![d] = "failed"]
  /\ pc' = "raised"
  /\ exc' = Some(_missing_io_key_error(d, ItemOf(d), args))
  /\ UNCHANGED <<cfg, call, allowed, cpu_count, selected, strategy, max_chunks, chunks,
                 chunk_started, thread_workers, logs>>
  /\ UNCHANGED <<batch_log, sched_vars, batch_vars>>

\* _execute_domain, lines 142-150, when the runner of d raises KeyError(*args):
\* the record's err is the MissingIOKeyError formatted into the message
KeyErrorSafe(d, args) ==
  /\ pc = "running"
  /\ strategy = "serial"
  /\ st[d] = "running"
  /\ ResolveAndRun(d, "KeyError")
  /\ key_error' = Some(args)
  /\ st' = [st EXCEPT ![d] = "failed"]
  /\ logs' = [logs EXCEPT ![d] =
                Append(@, [level |-> "error", msg |-> "Data handling error", exc_info |-> FALSE,
                           err |-> _missing_io_key_error(d, ItemOf(d), args)])]
  /\ UNCHANGED <<cfg, call, allowed, cpu_count, pc, selected, strategy, max_chunks, chunks,
                 chunk_started, thread_workers, exc>>
  /\ UNCHANGED <<batch_log, sched_vars, batch_vars>>

NextKey ==
  \/ CallRunDomains
  \/ \E a \in {None, Some({1})} : CallRunDomainsSafe(a, None)
  \/ StartDomain(1)
  \/ \E args \in KeyErrorArgs : KeyErrorStrict(1, args)
  \/ \E args \in KeyErrorArgs : KeyErrorSafe(1, args)
  \/ Return

SpecKey == InitKey /\ [][NextKey]_vars

\* ------------------------------------------------ the cron trigger builder
\* a str value: its lower-cased text and how it is cased
Str(text, casing) == <<text, casing>>

\* str.lower()
lower(s) == <<s[1], "lower">>

\* a field expression of a cron trigger: "*" or a number
Star == <<>>
Num(n) == <<n>>

\* apscheduler's CronTrigger.FIELD_NAMES, most significant first
FIELD_NAMES == <<"year", "month", "day", "week", "day_of_week", "hour", "minute", "second">>

FieldPos(f) == CHOOSE i \in 1..Len(FIELD_NAMES) : FIELD_NAMES[i] = f

\* the smallest and largest value a field accepts
MIN_VALUES ==
  [year |-> 1970, month |-> 1, day |-> 1, week |-> 1, day_of_week |-> 0,
   hour |-> 0, minute |-> 0, second |-> 0]
MAX_VALUES ==
  [year |-> 9999, month |-> 12, day |-> 31, week |-> 53, day_of_week |-> 6,
   hour |-> 23, minute |-> 59, second |-> 59]

\* what a field that is not passed gets once every passed field is more
\* significant than it
DEFAULT_VALUES ==
  [year |-> Star, month |-> Num(1), day |-> Num(1), week |-> Star, day_of_week |-> Star,
   hour |-> Num(0), minute |-> Num(0), second |-> Num(0)]

\* the outcome of a call: the value returned, or the exception raised
Returns(v) == [raises |-> "none", value |-> v]
Raises(e) == [raises |-> e, value |-> None]

\* CronTrigger(**given), scheduler.py lines 48, 60, 62: a field that is not
\* passed is "*" if a less significant field is passed, else its default; a
\* value outside the field's range raises ValueError
CronTrigger(given) ==
  LET field(f) ==
        IF f \in DOMAIN given THEN given[f]
        ELSE IF \A g \in DOMAIN given : FieldPos(g) < FieldPos(f) THEN DEFAULT_VALUES[f]
        ELSE Star
      valid(f) ==
        field(f) = Star \/ (MIN_VALUES[f] <= field(f)[1] /\ field(f)[1] <= MAX_VALUES[f])
  IN IF \A i \in 1..Len(FIELD_NAMES) : valid(FIELD_NAMES[i])
     THEN Returns(Some([f \in {FIELD_NAMES[i] : i \in 1..Len(FIELD_NAMES)} |-> field(f)]))
     ELSE Raises("ValueError")

\* CronTrigger.from_crontab(expr), line 44: expr is the list of its fields,
\* in the order minute, hour, day of month, month, day of week
from_crontab(expr) ==
  IF Len(expr) # 5 THEN Raises("ValueError")
  ELSE CronTrigger([minute |-> expr[1], hour |-> expr[2], day |-> expr[3],
                    month |-> expr[4], day_of_week |-> expr[5]])

\* the keys of day_map, lines 50-58, in the order of their values 0..6
WeekdayNames ==
  <<"monday", "tuesday", "wednesday", "thursday", "friday", "saturday", "sunday">>

\* day_map.get(key, default)
day_map_get(key, default) ==
  IF \E i \in 1..Len(WeekdayNames) : key = Str(WeekdayNames[i], "lower")
  THEN (CHOOSE i \in 1..Len(WeekdayNames) : key = Str(WeekdayNames[i], "lower")) - 1
  ELSE default

\* the day number looked up without lower-casing the name
DayNum_CaseSensitive(day_of_week) == day_map_get(day_of_week, 0)

\* line 59: day_num
DayNum(day_of_week) == day_map_get(lower(day_of_week), 0)

\* the dispatch with a daily trigger built from the hour alone
ScheduleTrigger_DailyHourOnly(sched) ==
  IF sched.cron # <<>> THEN from_crontab(sched.cron)
  ELSE IF sched.interval = "daily"
    THEN CronTrigger([hour |-> Num(sched.hour)])
  ELSE IF sched.interval = "weekly"
    THEN CronTrigger([day_of_week |-> Num(DayNum(sched.day_of_week)),
                      hour |-> Num(sched.hour), minute |-> Num(sched.minute)])
  ELSE IF sched.interval = "monthly"
    THEN CronTrigger([day |-> Num(sched.day_of_month),
                      hour |-> Num(sched.hour), minute |-> Num(sched.minute)])
  ELSE Returns(None)

\* _get_cron_trigger, lines 40-64: the trigger of an enabled schedule
ScheduleTrigger(sched) ==
  IF sched.cron # <<>> THEN from_crontab(sched.cron)
  ELSE IF sched.interval = "daily"
    THEN CronTrigger([hour |-> Num(sched.hour), minute |-> Num(sched.minute)])
  ELSE IF sched.interval = "weekly"
    THEN CronTrigger([day_of_week |-> Num(DayNum(sched.day_of_week)),
                      hour |-> Num(sched.hour), minute |-> Num(sched.minute)])
  ELSE IF sched.interval = "monthly"
    THEN CronTrigger([day |-> Num(sched.day_of_month),
                      hour |-> Num(sched.hour), minute |-> Num(sched.minute)])
  ELSE Returns(None)

\* global_cfg.domains.get(name): None, or the domain of that id
domains_get(global_cfg, name) ==
  IF name \in IdSet(global_cfg.domains)
  THEN Some(global_cfg.domains[PosOf(global_cfg.domains, name)])
  ELSE None

\* the builder without its test of schedule.enabled
_get_cron_trigger_IgnoresEnabled(name, global_cfg) ==
  LET domain == domains_get(global_cfg, name) IN
    IF IsNone(domain) THEN Returns(None)
    ELSE ScheduleTrigger(Val(domain).schedule)

\* _get_cron_trigger, lines 36-64
_get_cron_trigger(name, global_cfg) ==
  LET domain == domains_get(global_cfg, name) IN
    IF IsNone(domain) \/ ~Val(domain).schedule.enabled THEN Returns(None)
    ELSE ScheduleTrigger(Val(domain).schedule)

\* cron strings: empty, "30 2 * * *", "0 9 * * 0", and "30 2 * *" (a field short)
Crons ==
  {<<>>,
   <<Num(30), Num(2), Star, Star, Star>>,
   <<Num(0), Num(9), Star, Star, Num(0)>>,
   <<Num(30), Num(2), Star, Star>>}

Intervals == {"", "daily", "weekly", "monthly", "hourly"}

\* day_of_week strings: the seven names, "Wednesday", "SUNDAY", "funday", ""
DayStrings ==
  {Str(WeekdayNames[i], "lower") : i \in 1..Len(WeekdayNames)} \cup
  {Str("wednesday", "title"), Str("sunday", "upper"), Str("funday", "lower"), Str("", "lower")}

DaysOfMonth == {0, 1, 15}
Hours == {0, 2, 24}
Minutes == {0, 30, 60}

\* ScheduleConfig, types.py lines 34-44, validated or not
ScheduleConfig ==
  [enabled : BOOLEAN, cron : Crons, interval : Intervals, day_of_week : DayStrings,
   day_of_month : DaysOfMonth, hour : Hours, minute : Minutes]

\* a configuration whose only domain, id 1, has the schedule sched
TriggerConfig(sched) ==
  [domains |-> <<[id |-> 1, enabled |-> TRUE, tags |-> {}, schedule |-> sched]>>,
   active_domains |-> {}, active_tags |-> {},
   threads |-> [enabled |-> FALSE, max_workers |-> None],
   processes |-> [enabled |-> FALSE, max_workers |-> None]]

InitTrig ==
  /\ cfg \in {TriggerConfig(sched) : sched \in ScheduleConfig}
  /\ selected = <<>>
  /\ max_chunks = None
  /\ Idle

\* _get_cron_trigger(name, cfg) is called and returns or raises
GetCronTriggerCall(name) ==
  /\ pc = "idle"
  /\ call' = "_get_cron_trigger"
  /\ domain_name' = Some(name)
  /\ LET r == _get_cron_trigger(name, cfg) IN
       /\ trigger' = r
       /\ pc' = IF r.raises = "none" THEN "returned" ELSE "raised"
       /\ exc' = IF r.raises = "none" THEN None
                 ELSE Some([type |-> r.raises, domain |-> name, cause |-> "none"])
  /\ UNCHANGED <<cfg, allowed, cpu_count, selected, strategy, max_chunks, chunks, chunk_started,
                 thread_workers, st, outcome, resolved, invoked, logs, key_error, batch_log, batch_vars>>
  /\ UNCHANGED <<jobs, scheduler, main_pc>>

\* the id of the configured domain, and an id that is not configured
NextTrig == \E name \in {1, 2} : GetCronTriggerCall(name)

SpecTrig == InitTrig /\ [][NextTrig]_vars

\* --------------------------------------- the scheduler and its entry point
\* the validator without its check of the weekly day_of_week
validate_schedule_NoWeekdayCheck(sched) ==
  IF ~sched.enabled THEN Returns(sched)
  ELSE IF sched.cron # <<>> /\ sched.interval # "" THEN Raises("ValueError")
  ELSE IF sched.cron = <<>> /\ sched.interval = "" THEN Raises("ValueError")
  ELSE IF sched.cron # <<>>
    THEN IF from_crontab(sched.cron).raises = "none" THEN Returns(sched)
         ELSE Raises("ValueError")
  ELSE IF sched.interval \notin {"daily", "weekly", "monthly"} THEN Raises("ValueError")
  ELSE IF ~(0 <= sched.hour /\ sched.hour <= 23) THEN Raises("ValueError")
  ELSE IF ~(0 <= sched.minute /\ sched.minute <= 59) THEN Raises("ValueError")
  ELSE IF sched.interval = "monthly" /\ ~(1 <= sched.day_of_month /\ sched.day_of_month <= 31)
    THEN Raises("ValueError")
  ELSE Returns(sched)

\* ScheduleConfigModel.validate_schedule, config_models.py lines 65-115: the
\* validated schedule (a weekly day lower-cased), or the ValueError
validate_schedule(sched) ==
  IF ~sched.enabled THEN Returns(sched)
  ELSE IF sched.cron # <<>> /\ sched.interval # "" THEN Raises("ValueError")
  ELSE IF sched.cron = <<>> /\ sched.interval = "" THEN Raises("ValueError")
  ELSE IF sched.cron # <<>>
    THEN IF from_crontab(sched.cron).raises = "none" THEN Returns(sched)
         ELSE Raises("ValueError")
  ELSE IF sched.interval \notin {"daily", "weekly", "monthly"} THEN Raises("ValueError")
  ELSE IF ~(0 <= sched.hour /\ sched.hour <= 23) THEN Raises("ValueError")
  ELSE IF ~(0 <= sched.minute /\ sched.minute <= 59) THEN Raises("ValueError")
  ELSE IF /\ sched.interval = "weekly"
          /\ lower(sched.day_of_week) \notin
               {Str(WeekdayNames[i], "lower") : i \in 1..Len(WeekdayNames)}
    THEN Raises("ValueError")
  ELSE IF sched.interval = "monthly" /\ ~(1 <= sched.day_of_month /\ sched.day_of_month <= 31)
    THEN Raises("ValueError")
  ELSE Returns(IF sched.interval = "weekly"
               THEN [sched EXCEPT !.day_of_week = lower(@)] ELSE sched)

\* load_and_validate_config, validation.py lines 32-37, as far as schedules go
load_and_validate_config(raw) ==
  IF \E i \in 1..Len(raw.domains) : validate_schedule(raw.domains[i].schedule).raises # "none"
  THEN Raises("ConfigValidationError")
  ELSE Returns([raw EXCEPT !.domains =
                  [i \in 1..Len(raw.domains) |->
                     [raw.domains[i] EXCEPT !.schedule = validate_schedule(@).value]]])

\* a configuration as the validator hands it on
IsValidated(c) ==
  /\ load_and_validate_config(c).raises = "none"
  /\ load_and_validate_config(c).value = c

\* the job added for a domain with no restriction of the selection
NewJob_Unrestricted(name, global_cfg, trig) ==
  [id |-> <<"domain_", name>>,
   func |-> "run_domains_safe",
   args |-> <<global_cfg>>,
   allowed_domains |-> None,
   trigger |-> trig,
   misfire_grace_time |-> 60,
   coalesce |-> TRUE,
   runs |-> 0]

\* scheduler.add_job(...), lines 92-101: the job added for domain name; runs
\* counts its firings
NewJob(name, global_cfg, trig) ==
  [id |-> <<"domain_", name>>,
   func |-> "run_domains_safe",
   args |-> <<global_cfg>>,
   allowed_domains |-> Some({name}),
   trigger |-> trig,
   misfire_grace_time |-> 60,
   coalesce |-> TRUE,
   runs |-> 0]

\* the for loop of lines 89-103 from position i on: the jobs it adds
RECURSIVE AddJobs(_, _)
AddJobs(global_cfg, i) ==
  IF i > Len(global_cfg.domains) THEN <<>>
  ELSE LET name == global_cfg.domains[i].id
           r == _get_cron_trigger(name, global_cfg)
       IN (IF r.value # None THEN <<NewJob(name, global_cfg, Val(r.value))>> ELSE <<>>)
          \o AddJobs(global_cfg, i + 1)

\* schedule_domains returning a scheduler that holds no job
schedule_domains_NoCheck(global_cfg) ==
  IF \E i \in 1..Len(global_cfg.domains) :
       _get_cron_trigger(global_cfg.domains[i].id, global_cfg).raises # "none"
  THEN Raises("ValueError")
  ELSE Returns(AddJobs(global_cfg, 1))

\* schedule_domains, lines 86-111: the jobs of the scheduler it returns, or
\* the ValueError of a trigger or of line 107
schedule_domains(global_cfg) ==
  IF \E i \in 1..Len(global_cfg.domains) :
       _get_cron_trigger(global_cfg.domains[i].id, global_cfg).raises # "none"
  THEN Raises("ValueError")
  ELSE IF Len(AddJobs(global_cfg, 1)) = 0 THEN Raises("ValueError")
  ELSE Returns(AddJobs(global_cfg, 1))

\* schedules of the scheduler model: disabled (default, and with fields no
\* validator would accept if enabled), daily, weekly "SUNDAY", monthly, cron,
\* and two the validator rejects
ScheduleSamples ==
  {[enabled |-> FALSE, cron |-> <<>>, interval |-> "", day_of_week |-> Str("monday", "lower"),
    day_of_month |-> 1, hour |-> 0, minute |-> 0],
   [enabled |-> FALSE, cron |-> <<Num(30), Num(2), Star, Star>>, interval |-> "hourly",
    day_of_week |-> Str("funday", "lower"), day_of_month |-> 0, hour |-> 24, minute |-> 60],
   [enabled |-> TRUE, cron |-> <<>>, interval |-> "daily", day_of_week |-> Str("monday", "lower"),
    day_of_month |-> 1, hour |-> 2, minute |-> 30],
   [enabled |-> TRUE, cron |-> <<>>, interval |-> "weekly", day_of_week |-> Str("sunday", "upper"),
    day_of_month |-> 1, hour |-> 2, minute |-> 0],
   [enabled |-> TRUE, cron |-> <<>>, interval |-> "monthly", day_of_week |-> Str("monday", "lower"),
    day_of_month |-> 15, hour |-> 0, minute |-> 30],
   [enabled |-> TRUE, cron |-> <<Num(30), Num(2), Star, Star, Star>>, interval |-> "",
    day_of_week |-> Str("monday", "lower"), day_of_month |-> 1, hour |-> 0, minute |-> 0],
   [enabled |-> TRUE, cron |-> <<>>, interval |-> "hourly", day_of_week |-> Str("monday", "lower"),
    day_of_month |-> 1, hour |-> 0, minute |-> 0],
   [enabled |-> TRUE, cron |-> <<Num(30), Num(2), Star, Star, Star>>, interval |-> "daily",
    day_of_week |-> Str("monday", "lower"), day_of_month |-> 1, hour |-> 2, minute |-> 30]}

\* configurations of n domains, ids 1..n in this order, each enabled or not
\* and with one of the schedules
ScheduledDomains(n) ==
  {ds \in [1..n -> [id : 1..n, enabled : BOOLEAN, tags : {{}}, schedule : ScheduleSamples]] :
     \A i \in 1..n : ds[i].id = i}

SchedulerConfig ==
  [domains : UNION {ScheduledDomains(n) : n \in 1..MaxSchedDomains},
   active_domains : {{}},
   active_tags : {{}},
   threads : {[enabled |-> FALSE, max_workers |-> None]},
   processes : {[enabled |-> FALSE, max_workers |-> None]}]

\* cfg is what Hydra composed: the file contents, valid or not
InitSched ==
  /\ cfg \in SchedulerConfig
  /\ selected = <<>>
  /\ max_chunks = None
  /\ Idle

\* schedule_domains(cfg) is called on its own with a validated configuration;
\* the BackgroundScheduler of line 86 is lost when the call raises
ScheduleDomainsCall ==
  /\ pc = "idle"
  /\ main_pc = "idle"
  /\ batch_pc = "idle"
  /\ IsValidated(cfg)
  /\ call' = "schedule_domains"
  /\ LET r == schedule_domains(cfg) IN
       IF r.raises = "none"
       THEN /\ jobs' = r.value
            /\ scheduler' = "created"
            /\ pc' = "returned"
            /\ exc' = None
       ELSE /\ pc' = "raised"
            /\ exc' = Some([type |-> r.raises, domain |-> 0, cause |-> "none"])
            /\ UNCHANGED <<jobs, scheduler>>
  /\ UNCHANGED <<cfg, allowed, cpu_count, selected, strategy, max_chunks, chunks, chunk_started,
                 thread_workers, st, outcome, resolved, invoked, logs, key_error, batch_log, batch_vars>>
  /\ UNCHANGED <<domain_name, trigger, main_pc>>

\* scheduler_main.main, lines 43-44: the configuration is validated
MainLoad ==
  /\ pc = "idle"
  /\ main_pc = "idle"
  /\ batch_pc = "idle"
  /\ LET r == load_and_validate_config(cfg) IN
       IF r.raises = "none"
       THEN /\ cfg' = r.value
            /\ main_pc' = "configured"
            /\ exc' = None
       ELSE /\ main_pc' = "raised"
            /\ exc' = Some([type |-> r.raises, domain |-> 0, cause |-> "ValidationError"])
            /\ UNCHANGED cfg
  /\ UNCHANGED <<call, pc, allowed, cpu_count, selected, strategy, max_chunks, chunks, chunk_started,
                 thread_workers, st, outcome, resolved, invoked, logs, key_error, batch_log, batch_vars>>
  /\ UNCHANGED <<domain_name, trigger, jobs, scheduler>>

\* main, line 46: scheduler = schedule_domains(global_config)
MainSchedule ==
  /\ main_pc = "configured"
  /\ LET r == schedule_domains(cfg) IN
       IF r.raises = "none"
       THEN /\ jobs' = r.value
            /\ scheduler' = "created"
            /\ main_pc' = "scheduled"
            /\ UNCHANGED exc
       ELSE /\ main_pc' = "raised"
            /\ exc' = Some([type |-> r.raises, domain |-> 0, cause |-> "none"])
            /\ UNCHANGED <<jobs, scheduler>>
  /\ UNCHANGED <<cfg, call, pc, allowed, cpu_count, selected, strategy, max_chunks, chunks,
                 chunk_started, thread_workers, st, outcome, resolved, invoked, logs, key_error, batch_log, batch_vars>>
  /\ UNCHANGED <<domain_name, trigger>>

\* main, line 50: scheduler.start()
MainStart ==
  /\ main_pc = "scheduled"
  /\ scheduler' = "running"
  /\ main_pc' = "started"
  /\ UNCHANGED <<cfg, call, allowed, cpu_count, pc, selected, strategy, max_chunks, chunks,
                 chunk_started, thread_workers, st, outcome, resolved, invoked, logs, exc,
                 key_error, batch_log, batch_vars>>
  /\ UNCHANGED <<domain_name, trigger, jobs>>

\* main, lines 50 and 52-54: Ctrl+C while start() is executing; shutdown() of
\* a scheduler whose state is not yet running raises SchedulerNotRunningError
\* out of the except clause, else it stops the scheduler and main returns
MainStartInterrupted(was_running) ==
  /\ main_pc = "scheduled"
  /\ IF was_running
     THEN /\ scheduler' = "shutdown"
          /\ main_pc' = "returned"
          /\ UNCHANGED exc
     ELSE /\ main_pc' = "raised"
          /\ exc' = Some([type |-> "SchedulerNotRunningError", domain |-> 0,
                          cause |-> "KeyboardInterrupt"])
          /\ UNCHANGED scheduler
  /\ UNCHANGED <<cfg, call, pc, allowed, cpu_count, selected, strategy, max_chunks, chunks,
                 chunk_started, thread_workers, st, outcome, resolved, invoked, logs,
                 key_error, batch_log, batch_vars>>
  /\ UNCHANGED <<domain_name, trigger, jobs>>

\* main, line 51: a BackgroundScheduler has no attribute _scheduler, and the
\* AttributeError is not a KeyboardInterrupt, so it leaves main
MainWait ==
  /\ main_pc = "started"
  /\ main_pc' = "raised"
  /\ exc' = Some([type |-> "AttributeError", domain |-> 0, cause |-> "none"])
  /\ UNCHANGED <<cfg, call, pc, allowed, cpu_count, selected, strategy, max_chunks, chunks,
                 chunk_started, thread_workers, st, outcome, resolved, invoked, logs, key_error, batch_log, batch_vars>>
  /\ UNCHANGED <<domain_name, trigger, jobs, scheduler>>

\* main, lines 52-54: Ctrl+C after start() returned and before line 51 is
\* evaluated; the scheduler is shut down and main returns
MainInterrupt ==
  /\ main_pc = "started"
  /\ scheduler' = "shutdown"
  /\ main_pc' = "returned"
  /\ UNCHANGED <<cfg, call, pc, allowed, cpu_count, selected, strategy, max_chunks, chunks,
                 chunk_started, thread_workers, st, outcome, resolved, invoked, logs, exc,
                 key_error, batch_log, batch_vars>>
  /\ UNCHANGED <<domain_name, trigger, jobs>>

\* the running scheduler fires job j while the process of main is alive (its
\* thread is a daemon thread)
JobFires(j) ==
  /\ scheduler = "running"
  /\ main_pc = "started"
  /\ jobs[j].runs < MaxFirings
  /\ jobs' = [jobs EXCEPT ![j].runs = @ + 1]
  /\ UNCHANGED <<cfg, call, allowed, cpu_count, pc, selected, strategy, max_chunks, chunks,
                 chunk_started, thread_workers, st, outcome, resolved, invoked, logs, exc,
                 key_error, batch_log, batch_vars>>
  /\ UNCHANGED <<domain_name, trigger, scheduler, main_pc>>

NextSched ==
  \/ ScheduleDomainsCall
  \/ MainLoad
  \/ MainSchedule
  \/ MainStart
  \/ \E was_running \in BOOLEAN : MainStartInterrupted(was_running)
  \/ MainWait
  \/ MainInterrupt
  \/ \E j \in 1..Len(jobs) : JobFires(j)

SpecSched == InitSched /\ [][NextSched]_vars

\* ------------------------------- the trigger builder behind the validator
\* schedule_domains, lines 89-90, for one domain of a configuration that
\* load_and_validate_config accepted
BuildValidatedTrigger(name) ==
  /\ main_pc = "configured"
  /\ GetCronTriggerCall(name)

\* any schedule of the file is validated, then the builder is asked for the
\* configured domain and for an id that is not configured
NextValid ==
  \/ MainLoad
  \/ \E name \in {1, 2} : BuildValidatedTrigger(name)

SpecValid == InitTrig /\ [][NextValid]_vars

\* ------------------------------------- the two callers of run_domains_safe
\* run_domains_safe(c, a) is entered by a caller that made calls before: lines
\* 194-209 select and pick the branch; the records of the last call are gone
EnterRunDomainsSafe(c, a, cpu) ==
  /\ LET sel == _iter_selected_domains(c, a)
         strat == Strategy(c, sel)
         reads == \/ strat = "processes" /\ IsNone(c.processes.max_workers)
                  \/ strat = "threads" /\ IsNone(c.threads.max_workers)
         cs == IF strat = "processes" THEN _chunk_domains(sel, c.processes.max_workers, cpu)
               ELSE <<>>
     IN
       /\ (~reads) => cpu = None
       /\ selected' = sel
       /\ strategy' = strat
       /\ max_chunks' = IF strat = "processes" THEN c.processes.max_workers ELSE None
       /\ chunks' = cs
       /\ chunk_started' = [k \in 1..Len(cs) |-> FALSE]
       /\ thread_workers' = IF strat = "processes" /\ c.threads.enabled
                            THEN c.threads.max_workers ELSE None
       /\ st' = [d \in DomainIds |-> IF d \in IdSet(sel) THEN "queued" ELSE "idle"]
  /\ cfg' = c
  /\ call' = "run_domains_safe"
  /\ allowed' = a
  /\ cpu_count' = cpu
  /\ pc' = "running"
  /\ outcome' = [d \in DomainIds |-> "unset"]
  /\ resolved' = [d \in DomainIds |-> 0]
  /\ invoked' = [d \in DomainIds |-> 0]
  /\ logs' = [d \in DomainIds |-> <<>>]
  /\ exc' = None

\* a scheduler whose job calls run_domains_safe with no allowed_domains
JobRuns_AllDomains(j, cpu) ==
  /\ scheduler = "running"
  /\ main_pc = "started"
  /\ pc \in {"idle", "returned"}
  /\ jobs[j].runs < MaxFirings
  /\ jobs' = [jobs EXCEPT ![j].runs = @ + 1]
  /\ EnterRunDomainsSafe(jobs[j].args[1], None, cpu)
  /\ UNCHANGED <<key_error, batch_log, batch_vars>>
  /\ UNCHANGED <<domain_name, trigger, scheduler, main_pc>>

\* the running scheduler fires job j: it calls func(*args, **kwargs) of lines
\* 93-95, run_domains_safe(global_cfg, allowed_domains={domain_name}); here one
\* job at a time
JobRuns(j, cpu) ==
  /\ scheduler = "running"
  /\ main_pc = "started"
  /\ pc \in {"idle", "returned"}
  /\ jobs[j].runs < MaxFirings
  /\ jobs' = [jobs EXCEPT ![j].runs = @ + 1]
  /\ EnterRunDomainsSafe(jobs[j].args[1], jobs[j].allowed_domains, cpu)
  /\ UNCHANGED <<key_error, batch_log, batch_vars>>
  /\ UNCHANGED <<domain_name, trigger, scheduler, main_pc>>

\* a record main.main emits about a domain (0: about no domain)
MainRecord(level, msg, d) == [level |-> level, msg |-> msg, domain |-> d]

\* lines 110-116 with no logger yet: the failure goes to stderr and is raised
FatalSetupRecord == MainRecord("stderr", "Fatal error during orchestration setup", 0)

\* a main without the raise of line 116: a setup failure is printed and main
\* returns
BatchSetup_SwallowsFailure(composes) ==
  /\ pc = "idle"
  /\ main_pc = "idle"
  /\ batch_pc = "idle"
  /\ LET r == IF composes THEN load_and_validate_config(cfg) ELSE Raises("Exception") IN
       IF r.raises = "none"
       THEN /\ cfg' = r.value
            /\ batch_pc' = "loading"
            /\ exc' = None
            /\ main_log' = Append(main_log,
                 MainRecord("info", "Starting orchestration with safe-loading pattern", 0))
       ELSE /\ batch_pc' = "returned"
            /\ exc' = None
            /\ main_log' = Append(main_log, FatalSetupRecord)
            /\ UNCHANGED cfg
  /\ UNCHANGED <<call, pc, allowed, cpu_count, selected, strategy, max_chunks, chunks, chunk_started,
                 thread_workers, st, outcome, resolved, invoked, logs, key_error, batch_log>>
  /\ UNCHANGED <<sched_vars, valid_configs, failed_domains, batch_next>>

\* main.main, lines 41-55: the top-level configuration is composed (composes
\* says whether compose returns) and validated; a failure is reported and
\* raised again by lines 110-116
BatchSetup(composes) ==
  /\ pc = "idle"
  /\ main_pc = "idle"
  /\ batch_pc = "idle"
  /\ LET r == IF composes THEN load_and_validate_config(cfg) ELSE Raises("Exception") IN
       IF r.raises = "none"
       THEN /\ cfg' = r.value
            /\ batch_pc' = "loading"
            /\ exc' = None
            /\ main_log' = Append(main_log,
                 MainRecord("info", "Starting orchestration with safe-loading pattern", 0))
       ELSE /\ batch_pc' = "raised"
            /\ exc' = Some([type |-> r.raises, domain |-> 0,
                            cause |-> IF composes THEN "ValidationError" ELSE "none"])
            /\ main_log' = Append(main_log, FatalSetupRecord)
            /\ UNCHANGED cfg
  /\ UNCHANGED <<call, pc, allowed, cpu_count, selected, strategy, max_chunks, chunks, chunk_started,
                 thread_workers, st, outcome, resolved, invoked, logs, key_error, batch_log>>
  /\ UNCHANGED <<sched_vars, valid_configs, failed_domains, batch_next>>

\* what loading one domain's configuration does: lines 71-75 return a
\* configuration that holds the domain or not, or compose or the validator raise
LoadOutcomes == {"valid", "absent", "compose_raises", "validation_raises"}

\* a loading loop without its try: an exception of compose or of the
\* validator leaves the loop and is raised by main
BatchLoadDomain_StopsAtFailure(loading) ==
  /\ batch_pc = "loading"
  /\ LET k == Len(valid_configs) + Len(failed_domains) IN
       /\ k < Len(cfg.domains)
       /\ LET name == cfg.domains[k + 1].id IN
            IF loading = "valid"
            THEN /\ valid_configs' = Append(valid_configs,
                      [domain_name |-> name, validated_cfg |-> cfg])
                 /\ main_log' = Append(main_log,
                      MainRecord("info", "[OK] Successfully loaded config for domain", name))
                 /\ UNCHANGED <<failed_domains, batch_pc, exc>>
            ELSE IF loading = "absent"
            THEN /\ failed_domains' = Append(failed_domains, name)
                 /\ main_log' = Append(main_log,
                      MainRecord("warning", "[SKIP] Domain not found in config", name))
                 /\ UNCHANGED <<valid_configs, batch_pc, exc>>
            ELSE /\ batch_pc' = "raised"
                 /\ exc' = Some([type |-> "Exception", domain |-> name, cause |-> "none"])
                 /\ main_log' = Append(main_log, MainRecord("error", "Orchestration failed", 0))
                 /\ UNCHANGED <<valid_configs, failed_domains>>
  /\ UNCHANGED <<cfg, call, pc, allowed, cpu_count, selected, strategy, max_chunks, chunks,
                 chunk_started, thread_workers, st, outcome, resolved, invoked, logs,
                 key_error, batch_log>>
  /\ UNCHANGED <<sched_vars, batch_next>>

\* main.main, lines 69-88, for the next domain of domains_to_load (the keys of
\* the domains mapping)
BatchLoadDomain(loading) ==
  /\ batch_pc = "loading"
  /\ LET k == Len(valid_configs) + Len(failed_domains) IN
       /\ k < Len(cfg.domains)
       /\ LET name == cfg.domains[k + 1].id IN
            IF loading = "valid"
            THEN /\ valid_configs' = Append(valid_configs,
                      [domain_name |-> name, validated_cfg |-> cfg])
                 /\ main_log' = Append(main_log,
                      MainRecord("info", "[OK] Successfully loaded config for domain", name))
                 /\ UNCHANGED failed_domains
            ELSE /\ failed_domains' = Append(failed_domains, name)
                 /\ main_log' = Append(main_log,
                      IF loading = "absent"
                      THEN MainRecord("warning", "[SKIP] Domain not found in config", name)
                      ELSE MainRecord("error", "[FAIL] Failed to load config for domain", name))
                 /\ UNCHANGED valid_configs
  /\ UNCHANGED <<cfg, call, pc, allowed, cpu_count, selected, strategy, max_chunks, chunks,
                 chunk_started, thread_workers, st, outcome, resolved, invoked, logs, exc,
                 key_error, batch_log>>
  /\ UNCHANGED <<sched_vars, batch_next, batch_pc>>

\* main.main, lines 91-97: the loading loop has ended; with nothing valid
\* main returns
BatchSummary ==
  /\ batch_pc = "loading"
  /\ Len(valid_configs) + Len(failed_domains) = Len(cfg.domains)
  /\ batch_pc' = IF valid_configs = <<>> THEN "returned" ELSE "executing"
  /\ main_log' = Append(main_log, MainRecord("info", "Config loading complete", 0))
                 \o (IF failed_domains # <<>>
                     THEN <<MainRecord("warning", "The following domains will NOT run", 0)>>
                     ELSE <<>>)
                 \o (IF valid_configs = <<>>
                     THEN <<MainRecord("error", "No valid domain configurations loaded. Exiting.", 0)>>
                     ELSE <<>>)
  /\ UNCHANGED <<cfg, call, pc, allowed, cpu_count, selected, strategy, max_chunks, chunks,
                 chunk_started, thread_workers, st, outcome, resolved, invoked, logs, exc,
                 key_error, batch_log>>
  /\ UNCHANGED <<sched_vars, valid_configs, failed_domains, batch_next>>

\* an execute loop that calls run_domains_safe without allowed_domains
BatchExecute_AllDomains(cpu) ==
  /\ batch_pc = "executing"
  /\ pc \in {"idle", "returned"}
  /\ batch_next <= Len(valid_configs)
  /\ EnterRunDomainsSafe(valid_configs[batch_next].validated_cfg, None, cpu)
  /\ batch_next' = batch_next + 1
  /\ UNCHANGED <<key_error, batch_log, sched_vars, valid_configs, failed_domains, main_log,
                 batch_pc>>

\* main.main, lines 100-104: run_domains_safe(filtered_cfg,
\* allowed_domains={domain_name}) for the next entry of valid_configs
BatchExecute(cpu) ==
  /\ batch_pc = "executing"
  /\ pc \in {"idle", "returned"}
  /\ batch_next <= Len(valid_configs)
  /\ EnterRunDomainsSafe(valid_configs[batch_next].validated_cfg,
                         Some({valid_configs[batch_next].domain_name}), cpu)
  /\ batch_next' = batch_next + 1
  /\ UNCHANGED <<key_error, batch_log, sched_vars, valid_configs, failed_domains, main_log,
                 batch_pc>>

\* main.main: the execute loop has ended and main returns
BatchReturn ==
  /\ batch_pc = "executing"
  /\ pc = "returned"
  /\ batch_next > Len(valid_configs)
  /\ batch_pc' = "returned"
  /\ UNCHANGED <<cfg, call, pc, allowed, cpu_count, selected, strategy, max_chunks, chunks,
                 chunk_started, thread_workers, st, outcome, resolved, invoked, logs, exc,
                 key_error, batch_log>>
  /\ UNCHANGED <<sched_vars, valid_configs, failed_domains, batch_next, main_log>>

\* schedules of the callers model: disabled, daily, and one the validator rejects
CallerSchedules ==
  {s \in ScheduleSamples : s.cron = <<>> /\ s.interval \in {"", "daily", "hourly"}}

\* domains 1..n in this order, each enabled or not, with its tags and a schedule
CallerDomains(n) ==
  {ds \in [1..n -> [id : 1..n, enabled : BOOLEAN, tags : TagChoices,
                    schedule : CallerSchedules]] :
     \A i \in 1..n : ds[i].id = i /\ ds[i].tags = TagsOf(i)}

\* execution sub-configs of the callers model: off, or on with the most workers
CallerExecChoices ==
  {[enabled |-> FALSE, max_workers |-> None], [enabled |-> TRUE, max_workers |-> Some(MaxWorkers)]}

\* the filters exclude nothing, or all but domain 1, or all but the domains
\* tagged t2
CallerConfig ==
  [domains : UNION {CallerDomains(n) : n \in 1..MaxSchedDomains},
   active_domains : {{}, {1}},
   active_tags : {{}, {"t2"}},
   threads : CallerExecChoices,
   processes : CallerExecChoices]

InitCallers ==
  /\ cfg \in CallerConfig
  /\ selected = <<>>
  /\ max_chunks = None
  /\ Idle

\* how the pipeline of a domain behaves in the callers model
CallerBehaviours == {"returns", "ModuleNotFoundError", "KeyError"}

NextCallers ==
  \/ MainLoad
  \/ MainSchedule
  \/ MainStart
  \/ \E j \in 1..Len(jobs), cpu \in CpuChoices : JobRuns(j, cpu)
  \/ \E composes \in BOOLEAN : BatchSetup(composes)
  \/ \E loading \in LoadOutcomes : BatchLoadDomain(loading)
  \/ BatchSummary
  \/ \E cpu \in CpuChoices : BatchExecute(cpu)
  \/ BatchReturn
  \/ \E d \in DomainIds : SkipDomain(d)
  \/ \E d \in DomainIds : StartDomain(d)
  \/ \E d \in DomainIds, b \in CallerBehaviours : FinishSafe(d, b)
  \/ Return

SpecCallers == InitCallers /\ [][NextCallers]_vars

\* ===================================================================== claims
SelId(i) == selected[i].id
SelectedIds == IdSet(selected)
Skipped == Info("Skipping domain (disabled)")
Failing == Behaviours \ {"returns"}

\* some step of the running call can be taken
CanProceed ==
  \/ \E d \in SelectedIds : CanBegin(d) \/ st[d] = "running"
  \/ \E c \in 1..Len(chunks) :
       /\ ~chunk_started[c]
       /\ \A b \in 1..(c - 1) : chunk_started[b]
       /\ ActiveChunks < ProcessPoolSize(cfg.processes.max_workers, cpu_count)
  \/ \A d \in SelectedIds : IsTerminal(d)

\* C1: run_domains_safe never raises and never gets stuck, whatever the
\* selection, the strategy and the behaviour of each domain; when it has
\* returned, every enabled selected domain was handed to the resolver, and to
\* its runner if the resolver returned one, whatever the other domains did.
C1_IsolatedNeverRaises ==
  call = "run_domains_safe" =>
    /\ pc # "raised"
    /\ exc = None
    /\ pc = "running" => CanProceed
    /\ pc = "returned" =>
         \A d \in SelectedIds : ItemOf(d).enabled =>
           /\ resolved[d] = 1
           /\ outcome[d] \in Behaviours
           /\ invoked[d] = (IF outcome[d] \in RunnerOutcomes THEN 1 ELSE 0)

\* a failing domain before a succeeding one in the serial branch, both reported
C1_Witness ==
  /\ call = "run_domains_safe"
  /\ pc = "returned"
  /\ strategy = "serial"
  /\ \E i, j \in 1..Len(selected) :
       /\ i < j
       /\ outcome[SelId(i)] = "Exception"
       /\ outcome[SelId(j)] = "returns"
       /\ invoked[SelId(j)] = 1

\* C2: run_domains handles the selected domains one at a time in selection
\* order; a domain that fails makes the call raise at once, with every later
\* domain untouched and every earlier enabled domain completed.
C2_StrictStopsAtFirstFailure ==
  call = "run_domains" =>
    /\ Running(DomainIds) <= 1
    /\ \A i, j \in 1..Len(selected) :
         (i < j /\ HasBegun(SelId(j))) => st[SelId(i)] \in {"skipped", "completed"}
    /\ (pc = "raised") <=> (\E d \in SelectedIds : outcome[d] \in Failing)
    /\ \A i \in 1..Len(selected) :
         outcome[SelId(i)] \in Failing =>
           /\ pc = "raised"
           /\ ~IsNone(exc) /\ Val(exc).domain = SelId(i)
           /\ st[SelId(i)] = "failed"
           /\ \A j \in 1..Len(selected) :
                /\ j > i => /\ st[SelId(j)] = "queued"
                            /\ resolved[SelId(j)] = 0
                            /\ invoked[SelId(j)] = 0
                            /\ logs[SelId(j)] = <<>>
                /\ (j < i /\ selected[j].enabled) =>
                            /\ st[SelId(j)] = "completed"
                            /\ resolved[SelId(j)] = 1
                            /\ invoked[SelId(j)] = 1

\* the second of three selected domains fails after the first completed
C2_Witness ==
  /\ call = "run_domains"
  /\ pc = "raised"
  /\ Len(selected) = 3
  /\ st[SelId(1)] = "completed"
  /\ outcome[SelId(2)] = "KeyError"
  /\ selected[3].enabled
  /\ st[SelId(3)] = "queued"

\* C3: in both modes and under every strategy a disabled domain is never
\* handed to the resolver and its runner is never called; the only record it
\* gets is the skip record.
C3_DisabledNeverResolved ==
  \A d \in DomainIds : ~ItemOf(d).enabled =>
    /\ resolved[d] = 0
    /\ invoked[d] = 0
    /\ outcome[d] = "unset"
    /\ st[d] \in {"idle", "queued", "skipped"}
    /\ logs[d] \in {<<>>, <<Skipped>>}
    /\ (st[d] = "skipped") <=> (logs[d] = <<Skipped>>)

\* a disabled domain matched by the filters is skipped inside a threaded chunk
\* of the process fan-out while its enabled neighbour runs
C3_Witness ==
  /\ pc = "returned"
  /\ strategy = "processes"
  /\ cfg.active_tags # {}
  /\ \E c \in 1..Len(chunks) :
       /\ ChunkUsesThreads(chunks[c], thread_workers)
       /\ \E d, e \in IdSet(chunks[c]) :
            /\ ~ItemOf(d).enabled /\ st[d] = "skipped"
            /\ ItemOf(e).enabled /\ invoked[e] = 1

\* the ids of cfg.domains
ConfigIds == IdSet(cfg.domains)

SelectorReturned == call = "_iter_selected_domains" /\ pc = "returned"

\* C4 (as claimed): whenever an allowed_domains set is supplied, of any size,
\* every selected id is a member of it.
C4_SelectedWithinAllowed ==
  (SelectorReturned /\ ~IsNone(allowed)) => SelectedIds \subseteq Val(allowed)

\* C5: with active_domains empty, no allowed_domains and a non-empty
\* active_tags T, the selected domains are exactly those whose tags share at
\* least one tag with T.
C5_TagIntersection ==
  (SelectorReturned /\ IsNone(allowed) /\ cfg.active_domains = {} /\ cfg.active_tags # {}) =>
    /\ SelectedIds =
         {cfg.domains[i].id : i \in {k \in 1..Len(cfg.domains) :
                                      \E t \in cfg.active_tags : t \in cfg.domains[k].tags}}
    /\ \A i \in 1..Len(selected) : selected[i] = ItemOf(SelId(i))

\* T = {t2}: a domain tagged t1 and t2 is selected, one tagged only t1 is not
C5_Witness ==
  /\ SelectorReturned /\ IsNone(allowed) /\ cfg.active_domains = {}
  /\ cfg.active_tags = {"t2"}
  /\ \E d, e \in ConfigIds :
       /\ ItemOf(d).tags = {"t1", "t2"} /\ d \in SelectedIds
       /\ ItemOf(e).tags = {"t1"} /\ e \notin SelectedIds

\* a filter takes part when its list or set is non-empty
PassesFilters(d, a) ==
  /\ (~IsNone(a) /\ Val(a) # {}) => d.id \in Val(a)
  /\ cfg.active_domains # {} => d.id \in cfg.active_domains
  /\ cfg.active_tags # {} => d.tags \cap cfg.active_tags # {}

C7_SelectorIgnoresEnabled ==
  pc # "idle" =>
    \A d \in DomainIds : ~ItemOf(d).enabled =>
      /\ (d \in SelectedIds) <=> PassesFilters(ItemOf(d), allowed)
      /\ (pc = "returned" /\ d \in SelectedIds) => logs[d] = <<Skipped>>

\* a disabled domain matched by the tag filter is selected and logged as skipped
C7_Witness ==
  /\ pc = "returned"
  /\ cfg.active_tags # {}
  /\ \E d \in SelectedIds : ~ItemOf(d).enabled /\ logs[d] = <<Skipped>>

ChunkerReturned == call = "_chunk_domains" /\ pc = "returned"

\* C8: for max_chunks unset or at least 1, the chunks concatenated in chunk
\* order are the item list itself, so every item is in exactly one chunk.
C8_ChunksConcatenate ==
  (ChunkerReturned /\ (IsNone(max_chunks) \/ Val(max_chunks) >= 1)) =>
    /\ Concat(chunks) = selected
    /\ \A i \in 1..Len(selected) :
         Cardinality({c \in 1..Len(chunks) : SelId(i) \in IdSet(chunks[c])}) = 1

\* five items in two chunks
C8_Witness ==
  /\ ChunkerReturned
  /\ Len(selected) = 5
  /\ max_chunks = Some(2)
  /\ Len(chunks) = 2
  /\ Len(chunks[2]) = 2

\* the chunk count the claim names
ClaimedChunkCount ==
  LET k == IF ~IsNone(max_chunks) THEN Val(max_chunks)
           ELSE IF IsNone(cpu_count) THEN 1 ELSE Val(cpu_count)
  IN IF k < 1 THEN 1 ELSE k

\* ceil(n / k): the least s with s * k >= n
ClaimedChunkSize(n, k) == CHOOSE s \in 0..n : s * k >= n /\ \A r \in 0..(s - 1) : r * k < n

\* C9: with k the chunk count (max_chunks, else the CPU count, at least 1) and
\* s = ceil(n / k), chunk i holds the items at indices [i*s, (i+1)*s), no chunk
\* is empty and there are at most k chunks.
C9_ChunkLayout ==
  ChunkerReturned =>
    LET n == Len(selected)
        k == ClaimedChunkCount
        s == ClaimedChunkSize(n, k)
    IN /\ Len(chunks) <= k
       /\ \A c \in 1..Len(chunks) :
            /\ chunks[c] # <<>>
            /\ chunks[c] = [j \in 1..(Min(n, c * s) - (c - 1) * s) |-> selected[(c - 1) * s + j]]
       /\ n > 0 => Len(chunks) * s >= n

\* five items and max_chunks 4: chunks of 2, 2 and 1, fewer than 4
C9_Witness ==
  /\ ChunkerReturned
  /\ Len(selected) = 5
  /\ max_chunks = Some(4)
  /\ Len(chunks) = 3
  /\ Len(chunks[3]) = 1

\* C10: run_domains_safe takes the process fan-out exactly when processes are
\* enabled and more than one domain is selected, else the thread fan-out
\* exactly when threads are enabled and more than one domain is selected, else
\* the serial loop; chunks exist only in the process fan-out, and the serial
\* loop runs one domain at a time in selection order.
C10_StrategyPriority ==
  (call = "run_domains_safe") =>
    LET many == Len(selected) > 1
        p == cfg.processes.enabled
        t == cfg.threads.enabled
    IN /\ (strategy = "processes") <=> (p /\ many)
       /\ (strategy = "threads") <=> (~(p /\ many) /\ t /\ many)
       /\ (strategy = "serial") <=> (~(p /\ many) /\ ~(t /\ many))
       /\ ~many => strategy = "serial"
       /\ (chunks # <<>>) <=> (strategy = "processes")
       /\ strategy = "serial" =>
            /\ Running(DomainIds) <= 1
            /\ \A i, j \in 1..Len(selected) :
                 (i < j /\ HasBegun(SelId(j))) => IsTerminal(SelId(i))

\* threads and processes both enabled with two or more domains: process fan-out
C10_Witness ==
  /\ call = "run_domains_safe"
  /\ pc = "returned"
  /\ cfg.processes.enabled /\ cfg.threads.enabled
  /\ strategy = "processes"
  /\ Len(chunks) = 2

\* C11: in the process fan-out a chunk is run as a thread sub-fan-out exactly
\* when threads are enabled and the chunk holds more than one domain, whatever
\* threads.max_workers is (unset included), and serially otherwise.
C11_ChunkThreadsWheneverEnabled ==
  (call = "run_domains_safe" /\ strategy = "processes") =>
    \A c \in 1..Len(chunks) :
      ChunkUsesThreads(chunks[c], thread_workers)
        <=> (cfg.threads.enabled /\ Len(chunks[c]) > 1)

\* C12: when run_domains_safe has returned, under every strategy, every
\* selected domain is skipped, completed or failed with its record logged; no
\* domain is running or waiting in a pool and no chunk is waiting for a worker.
C12_ReturnsAfterAllTerminal ==
  (call = "run_domains_safe" /\ pc = "returned") =>
    /\ \A d \in SelectedIds :
         /\ st[d] \in TerminalSt
         /\ st[d] = "skipped" => logs[d] = <<Skipped>>
         /\ st[d] = "completed" => logs[d][Len(logs[d])] = Info("Completed domain")
         /\ st[d] = "failed" => logs[d][Len(logs[d])].level = "error"
    /\ Running(DomainIds) = 0
    /\ \A c \in 1..Len(chunks) : chunk_started[c] /\ ~ChunkActive(c)

\* the process fan-out with a threaded chunk has returned after a failure, a
\* skip and a completion
C12_Witness ==
  /\ call = "run_domains_safe"
  /\ pc = "returned"
  /\ strategy = "processes"
  /\ \E c \in 1..Len(chunks) : ChunkUsesThreads(chunks[c], thread_workers)
  /\ \E d \in SelectedIds : st[d] = "failed"
  /\ \E d \in SelectedIds : st[d] = "skipped"
  /\ \E d \in SelectedIds : st[d] = "completed"

\* the exception that has left run_domains is e, raised for domain d
StrictRaises(d, e) == pc = "raised" /\ st[d] = "failed" /\ exc = Some(e)

\* C13 as stated: in strict mode a resolution failure leaves run_domains as the
\* DomainNotFoundError or DomainInterfaceError itself, a DataHandlingError of
\* the runner leaves unwrapped, and any other exception of the runner leaves as
\* a DomainExecutionError with the domain's id and the exception as its cause.
C13_OtherExceptionsWrapped ==
  call = "run_domains" =>
    \A d \in SelectedIds :
      /\ outcome[d] = "ModuleNotFoundError" =>
           pc = "raised" /\ Val(exc).type = "DomainNotFoundError" /\ Val(exc).domain = d
      /\ outcome[d] = "MissingRun" =>
           pc = "raised" /\ Val(exc).type = "DomainInterfaceError" /\ Val(exc).domain = d
      /\ outcome[d] = "DataHandlingError" =>
           StrictRaises(d, [type |-> "DataHandlingError", domain |-> d, cause |-> "none"])
      /\ outcome[d] \in RunnerOutcomes \ {"returns", "DataHandlingError"} =>
           StrictRaises(d, [type |-> "DomainExecutionError", domain |-> d, cause |-> outcome[d]])

\* C13, amended: whatever the resolver raised leaves run_domains as it is; a
\* DataHandlingError of the runner leaves unwrapped; a KeyError of the runner
\* leaves as a MissingIOKeyError with the KeyError as its cause; any other
\* exception of the runner leaves as a DomainExecutionError with the domain's
\* id and the exception as its cause; a domain that returns raises nothing.
C13_StrictExceptionTypes ==
  call = "run_domains" =>
    /\ (pc = "raised") <=> (exc # None)
    /\ \A d \in SelectedIds :
         /\ outcome[d] = "ModuleNotFoundError" =>
              StrictRaises(d, [type |-> "DomainNotFoundError", domain |-> d,
                               cause |-> "ModuleNotFoundError"])
         /\ outcome[d] = "MissingRun" =>
              StrictRaises(d, [type |-> "DomainInterfaceError", domain |-> d, cause |-> "none"])
         /\ outcome[d] = "ImportException" =>
              StrictRaises(d, [type |-> "Exception", domain |-> d, cause |-> "none"])
         /\ outcome[d] = "DataHandlingError" =>
              StrictRaises(d, [type |-> "DataHandlingError", domain |-> d, cause |-> "none"])
         /\ outcome[d] = "KeyError" =>
              StrictRaises(d, [type |-> "MissingIOKeyError", domain |-> d, cause |-> "KeyError"])
         /\ outcome[d] = "Exception" =>
              StrictRaises(d, [type |-> "DomainExecutionError", domain |-> d,
                               cause |-> "Exception"])
         /\ outcome[d] = "returns" => st[d] = "completed" /\ (exc # None => Val(exc).domain # d)

\* a runner raised a KeyError after an earlier domain completed
C13_Witness ==
  /\ call = "run_domains"
  /\ pc = "raised"
  /\ \E d \in SelectedIds :
       /\ outcome[d] = "KeyError"
       /\ invoked[d] = 1
       /\ Val(exc).type = "MissingIOKeyError"
  /\ \E d \in SelectedIds : st[d] = "completed"

\* C14: for every domain handed to the resolver the resolver has one of three
\* outcomes: DomainNotFoundError when the pipeline module cannot be located,
\* DomainInterfaceError when the module has no run, else the run callable.
C14_ResolverThreeOutcomes ==
  \A d \in DomainIds : resolved[d] > 0 =>
    LET r == _load_domain_runner(outcome[d]) IN
      /\ r \in {"DomainNotFoundError", "DomainInterfaceError", "run"}
      /\ (r = "DomainNotFoundError") <=> (outcome[d] = "ModuleNotFoundError")
      /\ (r = "DomainInterfaceError") <=> (outcome[d] = "MissingRun")

\* the elements of a sequence
Elems(s) == {s[i] : i \in 1..Len(s)}

\* s lists exactly the keys of keys, each once, in ascending order
IsSortedListOf(s, keys) ==
  /\ Elems(s) = Elems(keys)
  /\ Len(s) = Len(keys)
  /\ \A i, j \in 1..Len(s) : i < j => s[i] < s[j]

\* e is the MissingIOKeyError of domain d for the lookup of key k
IsMissingIOKeyError(e, d, k) ==
  /\ e.type = "MissingIOKeyError"
  /\ e.domain = d
  /\ e.key = k
  /\ IsSortedListOf(e.available_inputs, ItemOf(d).inputs)
  /\ IsSortedListOf(e.available_outputs, ItemOf(d).outputs)

\* C15: when the runner of a domain looks up an input/output key that is not
\* configured for it, strict mode raises, and isolated mode logs as a
\* data-handling error without stack trace, a MissingIOKeyError that carries
\* the domain id, the attempted key and the domain's input keys and output
\* keys, each list sorted.
C15_MissingIOKeyError ==
  \A d \in SelectedIds :
    (/\ outcome[d] = "KeyError"
     /\ key_error # None /\ Val(key_error) # <<>>
     /\ Val(key_error)[1] \notin Elems(ItemOf(d).inputs) \cup Elems(ItemOf(d).outputs)) =>
      LET k == Val(key_error)[1] IN
        /\ call = "run_domains" =>
             /\ pc = "raised"
             /\ exc # None /\ IsMissingIOKeyError(Val(exc), d, k)
             /\ Val(exc).cause = "KeyError"
        /\ call = "run_domains_safe" =>
             /\ pc # "raised" /\ exc = None
             /\ LET rec == logs[d][Len(logs[d])] IN
                  /\ rec.level = "error"
                  /\ rec.msg = "Data handling error"
                  /\ ~rec.exc_info
                  /\ IsMissingIOKeyError(rec.err, d, k)

\* strict mode raised for a missing key of a domain whose input keys were
\* configured in descending order
C15_Witness ==
  /\ call = "run_domains"
  /\ pc = "raised"
  /\ key_error = Some(<<MaxKeys>>)
  /\ ItemOf(1).inputs = <<2, 1>>
  /\ ItemOf(1).outputs = <<1>>
  /\ Val(exc).key = MaxKeys
  /\ Val(exc).available_inputs = <<1, 2>>

\* the builder was called on its own for the configured domain / its schedule
BuilderCalled == call = "_get_cron_trigger"
TheSchedule == cfg.domains[1].schedule
AsksConfigured == Val(domain_name) \in IdSet(cfg.domains)

\* C16: the cron trigger builder returns no trigger and raises nothing when
\* the domain id is not in the configuration, when the schedule is disabled
\* (whatever its other fields are), and when the schedule is enabled with an
\* empty cron and an interval that is not daily, weekly or monthly.
C16_NoTriggerCases ==
  BuilderCalled =>
    ((\/ ~AsksConfigured
      \/ ~TheSchedule.enabled
      \/ /\ TheSchedule.enabled
         /\ TheSchedule.cron = <<>>
         /\ TheSchedule.interval \notin {"daily", "weekly", "monthly"})
     => /\ pc = "returned"
        /\ exc = None
        /\ trigger = [raises |-> "none", value |-> None])

\* a disabled schedule whose cron is malformed and whose time is out of range
C16_Witness ==
  /\ BuilderCalled
  /\ pc = "returned"
  /\ AsksConfigured
  /\ ~TheSchedule.enabled
  /\ Len(TheSchedule.cron) = 4
  /\ TheSchedule.hour = 24
  /\ trigger.value = None

\* instants of time, by the fields a cron trigger tests
SampleTimes ==
  [year : {2026}, month : {1, 6}, day : {1, 15}, week : {1}, day_of_week : 0..6,
   hour : {0, 2}, minute : {0, 30}, second : {0, 1}]

\* trigger t fires at instant i
Fires(t, i) == \A f \in DOMAIN t : t[f] = <<>> \/ t[f][1] = i[f]

\* the returned trigger fires at exactly the sample instants that satisfy At
FiresExactlyAt(At(_)) ==
  /\ trigger.raises = "none"
  /\ trigger.value # None
  /\ \A i \in SampleTimes : Fires(trigger.value[1], i) <=> At(i)

\* hour, minute (and for a monthly schedule the day) denote a time
TimeInRange(sched) ==
  /\ sched.hour \in 0..23
  /\ sched.minute \in 0..59
  /\ sched.interval = "monthly" => sched.day_of_month \in 1..31

\* the number of a weekday name, whatever its casing: monday 0 .. sunday 6
WeekdayNumber(day_of_week) ==
  CASE day_of_week[1] = "monday" -> 0
    [] day_of_week[1] = "tuesday" -> 1
    [] day_of_week[1] = "wednesday" -> 2
    [] day_of_week[1] = "thursday" -> 3
    [] day_of_week[1] = "friday" -> 4
    [] day_of_week[1] = "saturday" -> 5
    [] day_of_week[1] = "sunday" -> 6
    [] OTHER -> 0

IsWeekdayName(day_of_week) ==
  day_of_week[1] \in {"monday", "tuesday", "wednesday", "thursday", "friday", "saturday", "sunday"}

\* field f of a five-field cron expression admits the value v
CronAdmits(expr, pos, v) == expr[pos] = <<>> \/ expr[pos][1] = v

\* C17: for an enabled schedule, a cron expression that is set defines the
\* trigger alone, whatever interval, hour, minute and days are; without cron
\* (and with hour, minute and day_of_month in range) daily fires at hour:minute
\* every day, as cron "30 2 * * *" does for 2:30, weekly fires at hour:minute
\* on the configured weekday only, monthly at hour:minute on day_of_month only.
C17_TriggerDispatch ==
  (BuilderCalled /\ AsksConfigured /\ TheSchedule.enabled) =>
    LET sched == TheSchedule IN
      /\ sched.cron # <<>> =>
           /\ trigger = from_crontab(sched.cron)
           /\ Len(sched.cron) # 5 => trigger.raises = "ValueError"
           /\ Len(sched.cron) = 5 =>
                FiresExactlyAt(LAMBDA i :
                  /\ CronAdmits(sched.cron, 1, i.minute)
                  /\ CronAdmits(sched.cron, 2, i.hour)
                  /\ CronAdmits(sched.cron, 3, i.day)
                  /\ CronAdmits(sched.cron, 4, i.month)
                  /\ CronAdmits(sched.cron, 5, i.day_of_week)
                  /\ i.second = 0)
      /\ (sched.cron = <<>> /\ TimeInRange(sched)) =>
           /\ sched.interval = "daily" =>
                /\ FiresExactlyAt(LAMBDA i :
                     i.hour = sched.hour /\ i.minute = sched.minute /\ i.second = 0)
                /\ (sched.hour = 2 /\ sched.minute = 30) =>
                     trigger = from_crontab(<<<<30>>, <<2>>, <<>>, <<>>, <<>>>>)
           /\ (sched.interval = "weekly" /\ IsWeekdayName(sched.day_of_week)) =>
                FiresExactlyAt(LAMBDA i :
                  /\ i.day_of_week = WeekdayNumber(sched.day_of_week)
                  /\ i.hour = sched.hour /\ i.minute = sched.minute /\ i.second = 0)
           /\ sched.interval = "monthly" =>
                FiresExactlyAt(LAMBDA i :
                  /\ i.day = sched.day_of_month
                  /\ i.hour = sched.hour /\ i.minute = sched.minute /\ i.second = 0)

\* the daily schedule of 2:30, with day fields that play no part
C17_Witness ==
  /\ BuilderCalled
  /\ pc = "returned"
  /\ AsksConfigured
  /\ TheSchedule.enabled
  /\ TheSchedule.cron = <<>>
  /\ TheSchedule.interval = "daily"
  /\ TheSchedule.hour = 2 /\ TheSchedule.minute = 30
  /\ TheSchedule.day_of_month = 15
  /\ trigger.value # None
  /\ trigger.value[1].minute = <<30>>
  /\ trigger.value[1].day = <<>>

\* C18: a weekly schedule (no cron, hour and minute in range) yields a trigger
\* on the day numbered monday 0 .. sunday 6 whatever the casing of the name,
\* and on Monday, day 0, for any string that is not a weekday name; it never
\* raises and never returns no trigger.
C18_WeekdayMapping ==
  (/\ BuilderCalled /\ AsksConfigured /\ TheSchedule.enabled
   /\ TheSchedule.cron = <<>> /\ TheSchedule.interval = "weekly"
   /\ TimeInRange(TheSchedule)) =>
    /\ pc = "returned"
    /\ trigger.raises = "none"
    /\ trigger.value # None
    /\ trigger.value[1].day_of_week =
         <<IF IsWeekdayName(TheSchedule.day_of_week)
           THEN WeekdayNumber(TheSchedule.day_of_week) ELSE 0>>

\* "SUNDAY" gives day 6
C18_Witness ==
  /\ BuilderCalled
  /\ pc = "returned"
  /\ AsksConfigured
  /\ TheSchedule.enabled
  /\ TheSchedule.cron = <<>>
  /\ TheSchedule.interval = "weekly"
  /\ TheSchedule.day_of_week = <<"sunday", "upper">>
  /\ trigger.value # None
  /\ trigger.value[1].day_of_week = <<6>>

\* schedule_domains has been called (on its own, or by main at line 46)
ScheduleDomainsDone ==
  \/ call = "schedule_domains" /\ pc # "idle"
  \/ /\ main_pc \notin {"idle", "configured"}
     /\ ~(exc # None /\ Val(exc).type = "ConfigValidationError")

\* schedule_domains returned its scheduler
SchedulerBuilt == scheduler # "none"

\* domain d of the configuration gets a trigger
HasTrigger(d) == _get_cron_trigger(d, cfg).value # None

JobsOf(d) == {j \in 1..Len(jobs) : jobs[j].allowed_domains = Some({d})}

\* C19: the scheduler schedule_domains returns holds exactly one job for each
\* domain id of the configuration whose trigger is not none, and no other
\* job; the job's id is derived from the domain id and differs from every other
\* job's id, it calls run_domains_safe with the same configuration and
\* allowed_domains equal to that one id, and it has a misfire grace time and
\* coalescing switched on.
C19_OneJobPerTrigger ==
  SchedulerBuilt =>
    /\ \A d \in IdSet(cfg.domains) :
         Cardinality(JobsOf(d)) = (IF HasTrigger(d) THEN 1 ELSE 0)
    /\ \A j \in 1..Len(jobs) :
         \E d \in IdSet(cfg.domains) :
           /\ jobs[j].allowed_domains = Some({d})
           /\ jobs[j].id = <<"domain_", d>>
           /\ jobs[j].func = "run_domains_safe"
           /\ jobs[j].args = <<cfg>>
           /\ jobs[j].trigger = _get_cron_trigger(d, cfg).value[1]
           /\ jobs[j].misfire_grace_time > 0
           /\ jobs[j].coalesce
    /\ \A i, j \in 1..Len(jobs) : i # j => jobs[i].id # jobs[j].id

\* of two domains the first is scheduled by cron and the second is not
\* scheduled
C19_Witness ==
  /\ call = "schedule_domains"
  /\ pc = "returned"
  /\ Len(cfg.domains) = 2
  /\ cfg.domains[1].schedule.enabled /\ cfg.domains[1].schedule.cron # <<>>
  /\ ~cfg.domains[2].schedule.enabled
  /\ Len(jobs) = 1
  /\ jobs[1].allowed_domains = Some({1})

\* C20: when no domain of the configuration gets a trigger, schedule_domains
\* raises (a ValueError about the configuration), no scheduler is ever started
\* (main never reaches start()) and no job ever fires; when at least one
\* domain gets a trigger schedule_domains returns its scheduler.
C20_NoTriggerFailsFast ==
  LET none == \A d \in IdSet(cfg.domains) : ~HasTrigger(d) IN
    /\ (ScheduleDomainsDone /\ none) =>
         /\ exc # None /\ Val(exc).type = "ValueError"
         /\ call = "schedule_domains" => pc = "raised"
         /\ main_pc # "idle" => main_pc = "raised"
    /\ (IsValidated(cfg) /\ none) =>
         /\ scheduler = "none"
         /\ jobs = <<>>
         /\ main_pc \notin {"scheduled", "started", "returned"}
    /\ (ScheduleDomainsDone /\ ~none) =>
         /\ SchedulerBuilt
         /\ jobs # <<>>
         /\ ~(exc # None /\ Val(exc).type = "ValueError")
         /\ call = "schedule_domains" => pc = "returned"

\* main stopped at line 46 for a valid configuration of two domains without
\* an enabled schedule
C20_Witness ==
  /\ main_pc = "raised"
  /\ Len(cfg.domains) = 2
  /\ \A i \in 1..2 : ~cfg.domains[i].schedule.enabled
  /\ Val(exc).type = "ValueError"
  /\ scheduler = "none"

\* C21: the scheduler that schedule_domains returns is running: it fires its
\* jobs without any further call by the caller.
C21_ReturnedSchedulerRunning ==
  /\ (call = "schedule_domains" /\ pc = "returned") => scheduler = "running"
  /\ main_pc = "scheduled" => scheduler = "running"

\* the selected domains whose last per-domain record is of the given kind
WithLastRecord(Kind(_)) ==
  {d \in SelectedIds : logs[d] # <<>> /\ Kind(logs[d][Len(logs[d])])}

IsCompletedRecord(rec) == rec = Info("Completed domain")
IsErrorRecord(rec) == rec.level = "error"
IsSkipRecord(rec) == rec = Skipped

\* C22 as stated: when an isolated-mode batch has returned it has reported a
\* batch result with the numbers of domains that succeeded, failed and were
\* skipped, and these three numbers add up to the number of selected domains.
C22_BatchResultReported ==
  (call = "run_domains_safe" /\ pc = "returned") =>
    /\ batch_log # <<>>
    /\ LET result == batch_log[Len(batch_log)] IN
         /\ result.succeeded = Cardinality(WithLastRecord(IsCompletedRecord))
         /\ result.failed = Cardinality(WithLastRecord(IsErrorRecord))
         /\ result.succeeded + result.failed + result.skipped = Len(selected)

\* C22, amended: run_domains_safe reports no batch result: it logs nothing of
\* its own, at any point of the batch; when it has returned, also under
\* partial failure, the only report is the last record of each selected
\* domain, which is a completion, an error or the skip record, so the domains
\* that completed, failed and were skipped partition the selected domains.
C22_NoBatchResultOnlyDomainRecords ==
  call = "run_domains_safe" =>
    /\ batch_log = <<>>
    /\ pc = "returned" =>
         LET done == WithLastRecord(IsCompletedRecord)
             failed == WithLastRecord(IsErrorRecord)
             skipped == WithLastRecord(IsSkipRecord)
         IN /\ done \cup failed \cup skipped = SelectedIds
            /\ done \cap failed = {} /\ done \cap skipped = {} /\ failed \cap skipped = {}
            /\ Cardinality(done) + Cardinality(failed) + Cardinality(skipped) = Len(selected)
            /\ done = {d \in SelectedIds : st[d] = "completed"}
            /\ failed = {d \in SelectedIds : st[d] = "failed"}
            /\ skipped = {d \in SelectedIds : st[d] = "skipped"}

\* a batch of three returned with one domain completed, one failed, one skipped
C22_Witness ==
  /\ call = "run_domains_safe"
  /\ pc = "returned"
  /\ batch_log = <<>>
  /\ Len(selected) = 3
  /\ Cardinality(WithLastRecord(IsCompletedRecord)) = 1
  /\ Cardinality(WithLastRecord(IsErrorRecord)) = 1
  /\ Cardinality(WithLastRecord(IsSkipRecord)) = 1

IsolatedReturned == call = "run_domains_safe" /\ pc = "returned"

\* C24 as stated: when an isolated-mode batch has returned, every selected
\* enabled domain has had its runner resolved exactly once and invoked exactly
\* once.
C24_ResolvedAndInvokedOnce ==
  IsolatedReturned =>
    \A d \in SelectedIds : ItemOf(d).enabled => resolved[d] = 1 /\ invoked[d] = 1

\* C24, amended: in isolated mode, under every strategy and every chunk and
\* worker count, no domain is resolved or invoked twice and none but a selected
\* enabled domain is resolved; a selected domain lies in exactly one chunk;
\* and when the batch has returned every selected enabled domain was resolved
\* exactly once, and invoked exactly once if the resolver returned its runner
\* and never if the resolver raised.
C24_ResolvedOnceInvokedIfResolved ==
  call = "run_domains_safe" =>
    /\ \A d \in DomainIds :
         /\ resolved[d] <= 1 /\ invoked[d] <= resolved[d]
         /\ resolved[d] = 1 => d \in SelectedIds /\ ItemOf(d).enabled
    /\ (strategy = "processes" /\ pc # "idle") =>
         \A d \in SelectedIds :
           Cardinality({c \in 1..Len(chunks) : d \in IdSet(chunks[c])}) = 1
    /\ IsolatedReturned =>
         \A d \in SelectedIds : ItemOf(d).enabled =>
           /\ resolved[d] = 1
           /\ invoked[d] = (IF _load_domain_runner(outcome[d]) = "run" THEN 1 ELSE 0)

\* a batch spread over two chunks has returned; one enabled domain was run,
\* another could not be resolved
C24_Witness ==
  /\ IsolatedReturned
  /\ strategy = "processes"
  /\ Len(chunks) >= 2
  /\ \E d, e \in SelectedIds :
       /\ ChunkOf(d) # ChunkOf(e)
       /\ resolved[d] = 1 /\ invoked[d] = 1
       /\ resolved[e] = 1 /\ invoked[e] = 0

\* the one record that ends the step of a domain whose resolve-and-run block
\* behaved as given, by the taxonomy of the claim
TerminalRecordFor(behaviour) ==
  IF behaviour = "returns"
    THEN [level |-> "info", msg |-> "Completed domain", exc_info |-> FALSE]
  ELSE IF behaviour \in {"ModuleNotFoundError", "MissingRun"}
    THEN [level |-> "error", msg |-> "Domain setup error", exc_info |-> FALSE]
  ELSE IF behaviour = "KeyError"
    THEN [level |-> "error", msg |-> "Data handling error: MissingIOKeyError", exc_info |-> FALSE]
  ELSE IF behaviour = "DataHandlingError"
    THEN [level |-> "error", msg |-> "Data handling error", exc_info |-> TRUE]
  ELSE [level |-> "error", msg |-> "Unexpected error during domain execution", exc_info |-> TRUE]

\* C27: in isolated mode the records of an enabled domain are 'Starting domain'
\* first and then exactly one terminal record: 'Completed domain' iff resolver
\* and runner both returned, else one error record: setup error without trace
\* (module missing, no run callable), data-handling error without trace naming
\* the missing IO key (KeyError), data-handling error with trace (other
\* DataHandlingError), unexpected error with trace (anything else).
C27_StartThenOneTerminalRecord ==
  call = "run_domains_safe" =>
    \A d \in SelectedIds : ItemOf(d).enabled =>
      /\ st[d] = "queued" => logs[d] = <<>>
      /\ st[d] = "running" => logs[d] = <<Info("Starting domain")>>
      /\ IsTerminal(d) =>
           /\ logs[d] = <<Info("Starting domain"), TerminalRecordFor(outcome[d])>>
           /\ logs[d][2] = Info("Completed domain")
                <=> (_load_domain_runner(outcome[d]) = "run" /\ outcome[d] = "returns")
           /\ st[d] = (IF outcome[d] = "returns" THEN "completed" ELSE "failed")

\* a returned batch with a setup error, a missing IO key and an unexpected error
C27_Witness ==
  /\ IsolatedReturned
  /\ \E d, e, f \in SelectedIds :
       /\ logs[d] = <<Info("Starting domain"), Error("Domain setup error", FALSE)>>
       /\ logs[e] = <<Info("Starting domain"),
                      Error("Data handling error: MissingIOKeyError", FALSE)>>
       /\ logs[f] = <<Info("Starting domain"),
                      Error("Unexpected error during domain execution", TRUE)>>

\* C28: at any time of a call, in thread-only fan-out with threads.max_workers
\* = T at most T domains are running; in process fan-out with
\* processes.max_workers = P at most P chunks are being executed, within one
\* chunk at most T domains are running, and at most P*T overall; in serial
\* fallback and in strict mode at most one domain is running.
C28_ConcurrencyBounded ==
  pc = "running" =>
    LET T == cfg.threads.max_workers
        P == cfg.processes.max_workers
    IN /\ strategy \in {"strict", "serial"} => Running(SelectedIds) <= 1
       /\ (strategy = "threads" /\ ~IsNone(T)) => Running(SelectedIds) <= Val(T)
       /\ (strategy = "processes" /\ ~IsNone(P)) =>
            /\ ActiveChunks <= Val(P)
            /\ Cardinality({c \in 1..Len(chunks) : Running(IdSet(chunks[c])) > 0}) <= Val(P)
            /\ ~IsNone(T) =>
                 /\ \A c \in 1..Len(chunks) : Running(IdSet(chunks[c])) <= Val(T)
                 /\ Running(SelectedIds) <= Val(P) * Val(T)

\* process fan-out with P = 2 and T = 2: both chunks are being executed, one
\* of them with two domains running at once
C28_Witness ==
  /\ pc = "running"
  /\ strategy = "processes"
  /\ cfg.processes.max_workers = Some(2)
  /\ cfg.threads.max_workers = Some(2)
  /\ ActiveChunks = 2
  /\ \E c \in 1..Len(chunks) : Running(IdSet(chunks[c])) = 2
  /\ Running(SelectedIds) = 3

\* the two calls the claim compares: run_domains(cfg), and run_domains_safe(cfg)
\* with threads and processes disabled and no allowed_domains
StrictCall == call = "run_domains"
IsolatedSerialCall ==
  /\ call = "run_domains_safe"
  /\ IsNone(allowed)
  /\ ~cfg.threads.enabled /\ ~cfg.processes.enabled

\* what a call over cfg in which nothing fails has done when it returns, as a
\* function of cfg alone
NothingFailedResult(d) ==
  IF d \notin IdSet(_iter_selected_domains(cfg, None))
    THEN [st |-> "idle", logs |-> <<>>, resolved |-> 0, invoked |-> 0]
  ELSE IF ItemOf(d).enabled
    THEN [st |-> "completed", resolved |-> 1, invoked |-> 1,
          logs |-> <<Info("Starting domain"), Info("Completed domain")>>]
  ELSE [st |-> "skipped", logs |-> <<Skipped>>, resolved |-> 0, invoked |-> 0]

\* C30: strict mode and isolated mode in serial fallback do the same when
\* nothing fails: both select the same list, take its domains one at a time in
\* list order, and end having skipped the same disabled domains and resolved
\* and invoked once exactly the same enabled domains, with the same records.
C30_StrictAndSerialAgree ==
  (StrictCall \/ IsolatedSerialCall) =>
    /\ pc # "idle" => selected = _iter_selected_domains(cfg, None)
    /\ \A i, j \in 1..Len(selected) :
         (i < j /\ HasBegun(SelId(j))) => IsTerminal(SelId(i))
    /\ (pc = "returned" /\ \A d \in SelectedIds : st[d] # "failed") =>
         \A d \in DomainIds :
           [st |-> st[d], logs |-> logs[d], resolved |-> resolved[d],
            invoked |-> invoked[d]] = NothingFailedResult(d)

\* an isolated serial call over three selected domains has returned with
\* nothing failed, one domain skipped and two run
C30_Witness ==
  /\ IsolatedSerialCall
  /\ pc = "returned"
  /\ Len(selected) = 3
  /\ \A d \in SelectedIds : st[d] # "failed"
  /\ \E d \in SelectedIds : st[d] = "skipped"
  /\ \E d, e \in SelectedIds : d # e /\ invoked[d] = 1 /\ invoked[e] = 1

LowerCasedWeekdays == {Str(WeekdayNames[i], "lower") : i \in 1..Len(WeekdayNames)}

\* C29: in a configuration the validator accepted, an enabled schedule has
\* exactly one of cron and interval set, an interval that is set is daily,
\* weekly or monthly, and a weekly day_of_week is one of the seven lower-cased
\* weekday names; so the trigger builder, asked for a schedule-enabled domain
\* of such a configuration, returns a trigger: it neither raises nor returns
\* None, and a weekly day is always found in the day map (no Monday default).
C29_ValidatedScheduleHasTrigger ==
  main_pc = "configured" =>
    /\ \A i \in 1..Len(cfg.domains) :
         LET s == cfg.domains[i].schedule IN
           s.enabled =>
             /\ (s.cron # <<>>) # (s.interval # "")
             /\ s.interval # "" => s.interval \in {"daily", "weekly", "monthly"}
             /\ s.interval = "weekly" => s.day_of_week \in LowerCasedWeekdays
    /\ (BuilderCalled /\ pc # "idle" /\ AsksConfigured /\ TheSchedule.enabled) =>
         /\ pc = "returned"
         /\ trigger.raises = "none"
         /\ trigger.value # None
         /\ TheSchedule.cron = <<>> =>
              /\ TheSchedule.interval \in {"daily", "weekly", "monthly"}
              /\ TheSchedule.interval = "weekly" =>
                   /\ lower(TheSchedule.day_of_week) \in LowerCasedWeekdays
                   /\ Val(trigger.value).day_of_week
                        = Num(WeekdayNumber(TheSchedule.day_of_week))

\* the builder returned the Sunday trigger of a validated weekly schedule
C29_Witness ==
  /\ main_pc = "configured"
  /\ BuilderCalled /\ pc = "returned" /\ AsksConfigured
  /\ TheSchedule.enabled
  /\ TheSchedule.interval = "weekly"
  /\ TheSchedule.day_of_week = Str("sunday", "lower")
  /\ trigger.value # None
  /\ Val(trigger.value).day_of_week = Num(6)

\* a run_domains_safe call made by the batch entry point or by a job
CallerInCall == call = "run_domains_safe" /\ pc # "idle"
CalledByBatch == CallerInCall /\ batch_pc \in {"executing", "returned"}
CalledByJob == CallerInCall /\ main_pc = "started"

\* C25: every run_domains_safe call of the batch entry point and of a
\* scheduled job has a one-element allowed_domains, selects at most one
\* domain and takes the serial fallback, never a thread or process pool,
\* whatever the execution configuration enables.
C25_CallersAlwaysSerial ==
  CallerInCall =>
    /\ CalledByBatch \/ CalledByJob
    /\ ~IsNone(allowed) /\ Cardinality(Val(allowed)) = 1
    /\ Len(selected) <= 1
    /\ SelectedIds \subseteq Val(allowed)
    /\ strategy = "serial"
    /\ chunks = <<>> /\ IsNone(thread_workers) /\ IsNone(max_chunks)
    /\ Running(DomainIds) <= 1

\* a job runs its domain serially though threads and processes are enabled
\* and two domains are configured
C25_Witness ==
  /\ CalledByJob
  /\ cfg.threads.enabled /\ cfg.processes.enabled
  /\ Len(cfg.domains) = 2
  /\ cfg.active_domains = {} /\ cfg.active_tags = {}
  /\ Len(selected) = 1
  /\ strategy = "serial"
  /\ Running(DomainIds) = 1

\* domain d passes the global filters of cfg
PassesGlobalFilters(d) ==
  /\ cfg.active_domains = {} \/ d \in cfg.active_domains
  /\ cfg.active_tags = {} \/ ItemOf(d).tags \cap cfg.active_tags # {}

SchedulerHoldsJobs == main_pc \in {"scheduled", "started"}

\* C26: while the job of domain d runs, no other domain is selected, resolved
\* or run, and d is run only if it is enabled and passes active_domains and
\* active_tags; the scheduler holds exactly one job for every domain whose
\* schedule is enabled, enabled or not and filtered out or not, so such a
\* job's firing runs nothing.
C26_JobRunsOnlyItsDomain ==
  /\ CalledByJob =>
       \E j \in 1..Len(jobs) :
         /\ jobs[j].runs >= 1
         /\ allowed = jobs[j].allowed_domains
         /\ \E d \in IdSet(cfg.domains) :
              /\ allowed = Some({d})
              /\ \A e \in DomainIds \ {d} :
                   /\ st[e] = "idle" /\ logs[e] = <<>>
                   /\ resolved[e] = 0 /\ invoked[e] = 0
              /\ (resolved[d] > 0 \/ invoked[d] > 0 \/ st[d] \in {"running", "completed", "failed"})
                   => (ItemOf(d).enabled /\ PassesGlobalFilters(d))
              /\ (pc = "returned" /\ ~(ItemOf(d).enabled /\ PassesGlobalFilters(d)))
                   => \A e \in DomainIds : invoked[e] = 0 /\ resolved[e] = 0
  /\ SchedulerHoldsJobs =>
       /\ \A i \in 1..Len(cfg.domains) :
            Cardinality({j \in 1..Len(jobs) : jobs[j].allowed_domains = Some({cfg.domains[i].id})})
              = (IF cfg.domains[i].schedule.enabled THEN 1 ELSE 0)
       /\ Len(jobs) = Cardinality({i \in 1..Len(cfg.domains) : cfg.domains[i].schedule.enabled})

\* the job of a disabled domain and the job of a domain that active_domains
\* excludes are both registered; one of them fired and returned having run
\* nothing
C26_Witness ==
  /\ CalledByJob
  /\ pc = "returned"
  /\ Len(jobs) = 2
  /\ \E d \in IdSet(cfg.domains) :
       /\ allowed = Some({d})
       /\ ~(ItemOf(d).enabled /\ PassesGlobalFilters(d))
  /\ \E d, e \in IdSet(cfg.domains) :
       /\ ~ItemOf(d).enabled
       /\ ItemOf(e).enabled /\ ~PassesGlobalFilters(e)
  /\ \A e \in DomainIds : invoked[e] = 0

\* the domains main.main has attempted to load, in order, and what it holds
LoadedCount == Len(valid_configs) + Len(failed_domains)
ValidNames == {valid_configs[i].domain_name : i \in 1..Len(valid_configs)}
FailedNames == {failed_domains[i] : i \in 1..Len(failed_domains)}
IsDomainRecord(rec) == rec.domain # 0
LoadRecords == SelectSeq(main_log, IsDomainRecord)
BatchLoading == batch_pc \in {"loading", "executing", "returned"}

\* C31: the batch entry point loads each domain on its own: every domain
\* attempted so far is in exactly one of valid_configs and failed_domains, in
\* valid_configs exactly if its configuration loaded and holds it; a failed
\* load never ends the loop or raises, so the execute phase begins only when
\* every domain was attempted; only domains of valid_configs are executed; and
\* with valid_configs empty main returns, having raised and executed nothing.
C31_DomainsLoadedIndependently ==
  /\ BatchLoading =>
       /\ LoadedCount <= Len(cfg.domains)
       /\ Len(LoadRecords) = LoadedCount
       /\ \A i \in 1..LoadedCount :
            LET name == cfg.domains[i].id IN
              /\ LoadRecords[i].domain = name
              /\ (name \in ValidNames) # (name \in FailedNames)
              /\ name \in ValidNames
                   <=> LoadRecords[i].msg = "[OK] Successfully loaded config for domain"
       /\ ValidNames \cup FailedNames = {cfg.domains[i].id : i \in 1..LoadedCount}
       /\ Len(valid_configs) = Cardinality(ValidNames)
       /\ Len(failed_domains) = Cardinality(FailedNames)
       /\ IsNone(exc)
       /\ batch_pc \in {"executing", "returned"} => LoadedCount = Len(cfg.domains)
       /\ batch_pc = "loading" => call = "none"
       /\ call = "run_domains_safe" =>
            /\ valid_configs # <<>>
            /\ batch_next - 1 \in 1..Len(valid_configs)
            /\ allowed = Some({valid_configs[batch_next - 1].domain_name})
            /\ SelectedIds \subseteq ValidNames
            /\ \A d \in DomainIds : (resolved[d] > 0 \/ st[d] # "idle") => d \in ValidNames
       /\ (batch_pc = "returned" /\ valid_configs = <<>>) =>
            /\ call = "none" /\ pc = "idle"
            /\ \A d \in DomainIds : resolved[d] = 0 /\ invoked[d] = 0 /\ logs[d] = <<>>
  /\ batch_pc = "raised" => valid_configs = <<>> /\ failed_domains = <<>>

\* the first domain failed to load, the second loaded and was run, main returned
C31_Witness ==
  /\ batch_pc = "returned"
  /\ Len(cfg.domains) = 2
  /\ failed_domains = <<1>>
  /\ ValidNames = {2}
  /\ LoadRecords[1].level = "error"
  /\ call = "run_domains_safe" /\ pc = "returned"
  /\ invoked[2] = 1 /\ invoked[1] = 0

NothingExecuted ==
  /\ call = "none" /\ pc = "idle"
  /\ \A d \in DomainIds :
       st[d] = "idle" /\ resolved[d] = 0 /\ invoked[d] = 0 /\ logs[d] = <<>>

\* C32: when the top-level composition or validation of the batch entry point
\* fails, main reports the failure and raises it, with no domain loaded and
\* none executed; the loading loop is entered only after setup succeeded, so
\* whenever main is past setup the configuration is the validated one and no
\* fatal record was emitted.
C32_SetupFailureFatal ==
  /\ batch_pc = "raised" =>
       /\ ~IsNone(exc)
       /\ Val(exc).type \in {"Exception", "ConfigValidationError"}
       /\ main_log = <<FatalSetupRecord>>
       /\ valid_configs = <<>> /\ failed_domains = <<>>
       /\ NothingExecuted
  /\ BatchLoading =>
       /\ IsValidated(cfg)
       /\ IsNone(exc)
       /\ main_log # <<>>
       /\ main_log[1] = MainRecord("info", "Starting orchestration with safe-loading pattern", 0)
       /\ \A i \in 1..Len(main_log) : main_log[i] # FatalSetupRecord

\* validation of a composed configuration with two domains failed; main raised
C32_Witness ==
  /\ batch_pc = "raised"
  /\ Len(cfg.domains) = 2
  /\ ~IsNone(exc) /\ Val(exc).type = "ConfigValidationError"
  /\ main_log = <<FatalSetupRecord>>
  /\ NothingExecuted

\* C33: the scheduler entry point starts the scheduler only after
\* schedule_domains succeeded; once the scheduler runs, main stays in its wait
\* and neither returns nor raises while the scheduler is running; and main
\* ends only by returning after shutdown(), never by raising, once it has
\* reached start().
C33_MainBlocksWhileSchedulerRuns ==
  /\ scheduler \in {"running", "shutdown"} => jobs # <<>> /\ IsValidated(cfg)
  /\ (main_pc \in {"raised", "returned"} /\ jobs # <<>>) =>
       /\ scheduler # "running"
       /\ main_pc = "returned"
       /\ scheduler = "shutdown"

====
